---------------------------- MODULE Spec2Model ----------------------------
(***************************************************************************)
(* Protego: session lifecycle on a key-value store with two records per    *)
(* token (RedisService), the coordinator that issues, verifies and ends    *)
(* sessions (AuthService), and access-key validation (ApiKeyService over   *)
(* CassandraService).                                                      *)
(*                                                                         *)
(* Every call into a store is one atomic step of the request that makes    *)
(* it; requests are interleaved freely between their store calls.  Every   *)
(* store call may fail (the driver rejects the promise).                   *)
(***************************************************************************)
EXTENDS Integers, Sequences, FiniteSets, TLC

\* ------------------------------------------------------------------ bounds
MaxTime   == 4      \* the clock runs from 0 to MaxTime (seconds, scaled)
MaxTtl    == 2      \* session lifetimes handed to storeSession: 0..MaxTtl
MaxKeys   == 2      \* access keys a request can present: 1..MaxKeys

Procs    == {"r1", "r2"}            \* request slots served concurrently
Issuable == {"t1"}                  \* the tokens generateSessionToken draws in a run
Tokens   == Issuable \cup {"t2"}    \* and one of the 2^256 - 1 others, never drawn
NoToken  == "none"
Emails   == {"u@x.com"}
Secrets  == {"pw", "other"}         \* non-empty passwords
Empty    == ""                      \* a missing / empty request field
NoExpiry == -1                      \* a key written by SET, without EX
MaxText  == 2                       \* payload strings have up to MaxText characters
MaxKeyLen == 10                     \* key texts handed to maskApiKey: 0..MaxKeyLen characters

VARIABLES
  now,          \* the store's clock
  sessionTtl,   \* parseInt(this.configService.get('app.jwtExpiration') || '86400')
  session,      \* session[t]  : the record under  session:<t>
  metadata,     \* metadata[t] : the record under  session:metadata:<t>
  users,        \* users[e]    : hashedPassword of the User nodes with email e, in creation order
  proc,         \* proc[p]     : the request running in slot p
  issuedAt,     \* history: instant storeSession wrote session:<t>          (-1: never)
  metaAt,       \* history: instant storeSession wrote session:metadata:<t> (-1: never)
  logoutBegun,  \* history: tokens for which deleteSession has been invoked
  loggedOut,    \* history: tokens for which a deleteSession completed with both deletes done
  apiKeys,      \* apiKeys[k]  : the api_keys row whose api_key is k
  kproc,        \* kproc[p]    : the validateApiKey call running in slot p
  codec,        \* the EncryptionService: its key, and the call made on it
  req,          \* the request passing the key gate and the decrypt gate
  pool,         \* the run: the tokens generateSessionToken draws in it
  faults,       \* the run: whether calls into the stores can fail in it
  masking,      \* the maskApiKey call: its argument and what it returned
  config,       \* the run: what configService.get('app.jwtExpiration') returns in it
  dynConfig,    \* the DynamicConfigService: its environment, its config, the last getConfig
  history       \* history: per token, the latest status checkSessionStatus has returned

sessVars == <<now, sessionTtl, session, metadata, users, proc,
              issuedAt, metaAt, logoutBegun, loggedOut>>
keyVars  == <<apiKeys, kproc>>
vars     == <<now, sessionTtl, session, metadata, users, proc,
              issuedAt, metaAt, logoutBegun, loggedOut, apiKeys, kproc, codec, req,
              pool, faults, masking, config, dynConfig, history>>

\* a call into a store, the identity collaborator or the hasher returns, or, in
\* a run where they can fail, throws
Outcomes == IF faults THEN BOOLEAN ELSE {TRUE}

\* ------------------------------------------------------ configured expiration
\* what configService.get returns: undefined, or the configured text
Undefined == [defined |-> FALSE, text |-> <<>>]
Configured(text) == [defined |-> TRUE, text |-> text]

\* the number parseInt returns for a text without digits at its start; it is
\* kept apart from every number a text of the model parses to (none is negative)
NaN == -1

\* a JavaScript number that counts as false: 0 or NaN (and NaN * 2, still NaN)
FalsyNumber(n) == n <= 0

DigitChars == <<"0", "1", "2", "3", "4", "5", "6", "7", "8", "9">>
IsDigit(c) == \E i \in 1..10 : DigitChars[i] = c
DigitValue(c) == (CHOOSE i \in 1..10 : DigitChars[i] = c) - 1

\* String(n) for n >= 0
RECURSIVE Decimal(_)
Decimal(n) ==
  IF n < 10 THEN <<DigitChars[n + 1]>>
  ELSE Decimal(n \div 10) \o <<DigitChars[(n % 10) + 1]>>

\* the digits a text starts with, read as a decimal number on top of acc
RECURSIVE LeadingDigits(_, _)
LeadingDigits(text, acc) ==
  IF text = <<>> \/ ~IsDigit(Head(text)) THEN acc
  ELSE LeadingDigits(Tail(text), acc * 10 + DigitValue(Head(text)))

\* parseInt(text): the number written by the leading digits, whatever follows
\* them; NaN when the text does not start with a digit
ParseInt(text) ==
  IF text = <<>> \/ ~IsDigit(Head(text)) THEN NaN
  ELSE LeadingDigits(text, 0)

\* '86400', at the scale of the model's clock
DefaultExpiration == Decimal(MaxTtl)

\* login / signup: parseInt(this.configService.get('app.jwtExpiration') || '86400');
\* undefined and the empty text are the values || replaces
SessionTtl(cfg) ==
  ParseInt(IF cfg.defined /\ cfg.text # <<>> THEN cfg.text ELSE DefaultExpiration)

\* the configured values explored: nothing, and every text of up to
\* MaxConfigLen characters, digits and a unit letter
MaxConfigLen == 2
ExpirationChars == {"0", "1", "2", "h"}
ConfigValues ==
  {Undefined} \cup
  {Configured(text) : text \in UNION {[1..n -> ExpirationChars] : n \in 0..MaxConfigLen}}

\* ------------------------------------------------------- DynamicConfigService
LowerLetters == <<"a", "b", "c", "d", "e", "f", "g", "h", "i", "j", "k", "l", "m",
                  "n", "o", "p", "q", "r", "s", "t", "u", "v", "w", "x", "y", "z">>
UpperLetters == <<"A", "B", "C", "D", "E", "F", "G", "H", "I", "J", "K", "L", "M",
                  "N", "O", "P", "Q", "R", "S", "T", "U", "V", "W", "X", "Y", "Z">>
IsLowerLetter(c) == \E i \in 1..26 : LowerLetters[i] = c
IsUpperLetter(c) == \E i \in 1..26 : UpperLetters[i] = c
ToLowerCase(text) ==
  [i \in 1..Len(text) |->
     IF IsUpperLetter(text[i])
     THEN LowerLetters[CHOOSE j \in 1..26 : UpperLetters[j] = text[i]] ELSE text[i]]
ToUpperCase(text) ==
  [i \in 1..Len(text) |->
     IF IsLowerLetter(text[i])
     THEN UpperLetters[CHOOSE j \in 1..26 : LowerLetters[j] = text[i]] ELSE text[i]]

\* text.replace(/_([a-z])/g, (g) => g[1].toUpperCase())
RECURSIVE ReplaceUnderscoreLetter(_)
ReplaceUnderscoreLetter(text) ==
  IF text = <<>> THEN <<>>
  ELSE IF Len(text) >= 2 /\ text[1] = "_" /\ IsLowerLetter(text[2])
  THEN ToUpperCase(<<text[2]>>) \o ReplaceUnderscoreLetter(SubSeq(text, 3, Len(text)))
  ELSE <<text[1]>> \o ReplaceUnderscoreLetter(Tail(text))

\* DynamicConfigService.camelCaseKey
CamelCaseKey(snakeCase) == ReplaceUnderscoreLetter(ToLowerCase(snakeCase))

\* text.replace(/([A-Z])/g, '_$1')
RECURSIVE UnderscoreBeforeUpper(_)
UnderscoreBeforeUpper(text) ==
  IF text = <<>> THEN <<>>
  ELSE (IF IsUpperLetter(text[1]) THEN <<"_", text[1]>> ELSE <<text[1]>>)
         \o UnderscoreBeforeUpper(Tail(text))

\* DynamicConfigService.snakeCaseKey
SnakeCaseKey(camelCase) == ToUpperCase(UnderscoreBeforeUpper(camelCase))

\* keys of ApplicationConfig that every environment's defaults define
PortKey          == <<"p", "o", "r", "t">>
LogLevelKey      == <<"l", "o", "g", "L", "e", "v", "e", "l">>
RedisHostKey     == <<"r", "e", "d", "i", "s", "H", "o", "s", "t">>
BcryptRoundsKey  == <<"b", "c", "r", "y", "p", "t", "R", "o", "u", "n", "d", "s">>
EncryptionKeyKey == <<"e", "n", "c", "r", "y", "p", "t", "i", "o", "n", "K", "e", "y">>
ConfigKeys == {PortKey, LogLevelKey, RedisHostKey, BcryptRoundsKey, EncryptionKeyKey}

\* config values: a number or a string; undefined for a property that is not there
NumberValue(n) == [type |-> "number", n |-> n, s |-> ""]
StringValue(s) == [type |-> "string", n |-> 0, s |-> s]
UndefinedValue == [type |-> "undefined", n |-> 0, s |-> ""]

\* DEFAULT_CONFIGS, for the keys above
DefaultsOf(port, logLevel, redisHost, bcryptRounds, encryptionKey) ==
  [k \in ConfigKeys |->
     IF k = PortKey THEN NumberValue(port)
     ELSE IF k = LogLevelKey THEN StringValue(logLevel)
     ELSE IF k = RedisHostKey THEN StringValue(redisHost)
     ELSE IF k = BcryptRoundsKey THEN NumberValue(bcryptRounds)
     ELSE StringValue(encryptionKey)]
DEFAULT_CONFIGS ==
  [env \in {"local", "dev", "stage", "prod"} |->
     IF env = "local"
     THEN DefaultsOf(3000, "debug", "localhost", 10, "0123456789abcdef0123456789abcdef")
     ELSE IF env = "dev"
     THEN DefaultsOf(3000, "debug", "redis", 12, "fedcba9876543210fedcba9876543210")
     ELSE IF env = "stage"
     THEN DefaultsOf(3000, "info", "redis-stage.internal", 12,
                     "stage-encryption-key-changeme1234")
     ELSE DefaultsOf(3000, "warn", "redis-prod.internal", 15,
                     "prod-encryption-key-changeme12345")]

\* DEFAULT_CONFIGS[this.environment] || DEFAULT_CONFIGS['local']
DefaultConfig(environment) ==
  IF environment \in DOMAIN DEFAULT_CONFIGS THEN DEFAULT_CONFIGS[environment]
  ELSE DEFAULT_CONFIGS["local"]

\* obj[key]: undefined for a property the object does not have
Property(obj, key) == IF key \in DOMAIN obj THEN obj[key] ELSE UndefinedValue

\* DynamicConfigService.buildConfigFromDefaults: the defaults under the keys
\* camelCaseKey makes of theirs
BuildConfigFromDefaults(environment) ==
  LET defaultConfig == DefaultConfig(environment)
  IN [key \in {CamelCaseKey(k) : k \in DOMAIN defaultConfig} |->
        defaultConfig[CHOOSE k \in DOMAIN defaultConfig : CamelCaseKey(k) = key]]

\* parseConfigValue(String(value), typeof value) of a seeded row
ParseConfigValue(text, type) ==
  IF type = "number"
  THEN LET n == ParseInt(text) IN NumberValue(IF FalsyNumber(n) THEN 0 ELSE n)
  ELSE StringValue(text)

\* loadConfigsFromCassandra on the rows seedDefaultConfigs has inserted: each
\* default under camelCaseKey(snakeCaseKey(key)), its value written as text and
\* parsed back by its type
LoadedConfig(environment) ==
  LET defaultConfig == DefaultConfig(environment)
  IN [key \in {CamelCaseKey(SnakeCaseKey(k)) : k \in DOMAIN defaultConfig} |->
        LET k == CHOOSE d \in DOMAIN defaultConfig : CamelCaseKey(SnakeCaseKey(d)) = key
            v == defaultConfig[k]
        IN IF v.type = "number" THEN ParseConfigValue(Decimal(v.n), "number")
           ELSE ParseConfigValue(v.s, "string")]

NotAsked == <<>>
\* the service as its constructor leaves it: this.config = null
NewDynamicConfig(environment) ==
  [pc |-> "constructed", environment |-> environment, hasConfig |-> FALSE,
   config |-> <<>>, loadFailed |-> FALSE, asked |-> NotAsked, got |-> UndefinedValue,
   defaulted |-> FALSE]
NotInjected == NewDynamicConfig("local")

\* process.env.NODE_ENV || 'local'; "" stands for a variable that is not set
NodeEnvs == {"", "local", "dev", "stage", "prod", "test"}
EnvironmentOf(nodeEnv) == IF nodeEnv = "" THEN "local" ELSE nodeEnv

\* onModuleInit calls initialize, which awaits the config store
OnModuleInit ==
  /\ dynConfig.pc = "constructed"
  /\ dynConfig' = [dynConfig EXCEPT !.pc = "initializing"]
  /\ UNCHANGED <<now, sessionTtl, session, metadata, users, proc, issuedAt, metaAt,
                 logoutBegun, loggedOut, apiKeys, kproc, codec, req, pool, faults,
                 masking, config, history>>

\* initialize: loadConfigsFromCassandra has set this.config, or it has thrown
\* and the catch block sets this.config = this.buildConfigFromDefaults()
Initialize ==
  /\ dynConfig.pc = "initializing"
  /\ \E ok \in BOOLEAN :
       dynConfig' = [dynConfig EXCEPT
         !.pc = "ready", !.hasConfig = TRUE, !.loadFailed = ~ok,
         !.config = IF ok THEN LoadedConfig(dynConfig.environment)
                    ELSE BuildConfigFromDefaults(dynConfig.environment)]
  /\ UNCHANGED <<now, sessionTtl, session, metadata, users, proc, issuedAt, metaAt,
                 logoutBegun, loggedOut, apiKeys, kproc, codec, req, pool, faults,
                 masking, config, history>>

\* DynamicConfigService.getConfig(key)
GetConfig(key) ==
  /\ dynConfig' = [dynConfig EXCEPT
       !.asked = key, !.defaulted = ~dynConfig.hasConfig \/ dynConfig.loadFailed,
       !.got = IF ~dynConfig.hasConfig
               THEN Property(BuildConfigFromDefaults(dynConfig.environment), key)
               ELSE Property(dynConfig.config, key)]
  /\ UNCHANGED <<now, sessionTtl, session, metadata, users, proc, issuedAt, metaAt,
                 logoutBegun, loggedOut, apiKeys, kproc, codec, req, pool, faults,
                 masking, config, history>>

\* ---------------------------------------------------------------- maskApiKey
NoMasking == [pc |-> "idle", apiKey |-> <<>>, out |-> <<>>]

\* '*'.repeat(n)
Stars(n) == [i \in 1..n |-> "*"]

\* mutant: the middle is always masked by four characters
MaskApiKey_FixedFiller(apiKey) ==
  IF Len(apiKey) <= 8 THEN Stars(Len(apiKey))
  ELSE SubSeq(apiKey, 1, 4) \o Stars(4) \o SubSeq(apiKey, Len(apiKey) - 3, Len(apiKey))

\* ApiKeyService.maskApiKey
MaskApiKey(apiKey) ==
  IF Len(apiKey) <= 8 THEN Stars(Len(apiKey))
  ELSE SubSeq(apiKey, 1, 4) \o Stars(Len(apiKey) - 8)
         \o SubSeq(apiKey, Len(apiKey) - 3, Len(apiKey))

\* the key texts of the check: every text of up to MaxKeyLen characters
KeyChars == {"a", "7"}
KeyTexts == UNION {[1..n -> KeyChars] : n \in 0..MaxKeyLen}

\* validateApiKey masks the key it logs
MaskCall ==
  /\ masking.pc = "called"
  /\ masking' = [masking EXCEPT !.pc = "returned", !.out = MaskApiKey(masking.apiKey)]
  /\ UNCHANGED <<now, sessionTtl, session, metadata, users, proc, issuedAt, metaAt,
                 logoutBegun, loggedOut, apiKeys, kproc, codec, req, pool, faults,
                 config, dynConfig, history>>

\* ------------------------------------------------------------- key-value store
Absent == [set |-> FALSE, exp |-> 0, email |-> Empty]

\* RedisService.set: SETEX when ttl is truthy, plain SET (no expiry) otherwise
RedisSet(ttl, email) ==
  [set |-> TRUE, exp |-> IF ~FalsyNumber(ttl) THEN now + ttl ELSE NoExpiry, email |-> email]

\* RedisService.get: the value, or null for a key that is not there
RedisGet(rec) == rec.set

\* per-key expiry of the store: a key whose TTL has run out at instant t is gone
Expire(rec, t) == IF rec.set /\ rec.exp # NoExpiry /\ rec.exp <= t THEN Absent ELSE rec

\* ------------------------------------------------------------------ hasher
\* BcryptService.hash / compare: compare(p, h) is true exactly for h = hash(p)
Hash(p) == <<"bcrypt", p>>
Compare(p, h) == h = Hash(p)

\* --------------------------------------------------------------- requests
Idle == [pc |-> "idle", op |-> "none", tok |-> NoToken, email |-> Empty,
         password |-> Empty, hash |-> <<>>, sawSession |-> FALSE, sawMeta |-> FALSE,
         failed |-> FALSE, phase |-> "none", status |-> <<>>, res |-> <<>>,
         lookups |-> 0, compares |-> 0, found |-> FALSE, created |-> FALSE,
         after |-> {}, deleted |-> {}, response |-> <<>>, floor |-> -1]

\* history only: the statuses in the order VALID, EXPIRED, INVALID, and the
\* latest of them that completed checkSessionStatus calls have returned for
\* each token, kept in the runs that record it (0: none yet)
StatusRank(status) == IF status.valid THEN 1 ELSE IF status.expired THEN 2 ELSE 3
NoHistory == [recorded |-> FALSE, top |-> [t \in Tokens |-> 0]]
Recording == [recorded |-> TRUE, top |-> [t \in Tokens |-> 0]]
Observe(t, status) ==
  IF history.top[t] < StatusRank(status)
  THEN [history EXCEPT !.top[t] = StatusRank(status)] ELSE history

\* history only: where the session of token t stands, from what was done and
\* the clock, without looking at the store
Phase(t) ==
  IF issuedAt[t] < 0 THEN "never"
  ELSE IF metaAt[t] < 0 THEN "storing"
  ELSE IF loggedOut[t] THEN "loggedout"
  ELSE IF logoutBegun[t] THEN "logout"
  ELSE IF FalsyNumber(sessionTtl) \/ now < issuedAt[t] + sessionTtl THEN "live"
  ELSE IF now < metaAt[t] + 2 * sessionTtl THEN "lapsed"
  ELSE "dead"

\* what a verification keeps of the phase it was invoked in
PhaseAtStart(t) == IF Phase(t) \in {"live", "lapsed", "loggedout"} THEN Phase(t) ELSE "other"

\* tokens a successful login / signup has handed to its caller: storeSession
\* has completed for them
returned == {t \in Tokens : metaAt[t] >= 0}

\* tokens a caller can present: one it was handed, or one never generated (a
\* token a login has drawn and not yet returned is known to no caller)
Presentable(t) ==
  \/ t \in returned
  \/ /\ issuedAt[t] < 0
     /\ \A q \in Procs : proc[q].op \in {"login", "signup"} => proc[q].tok # t

Busy(t) == \E q \in Procs : proc[q].pc # "idle" /\ proc[q].tok = t

\* ------------------------------------------------------------- api_keys table
Keys  == 1..MaxKeys
NoRow == [found |-> FALSE, isActive |-> FALSE, lastUsed |-> -1]
Null  == [found |-> FALSE, isActive |-> FALSE]

KIdle == [pc |-> "idle", key |-> 0, keyData |-> Null, lookupFailed |-> FALSE,
          updateFailed |-> FALSE, clearedAtStart |-> FALSE, res |-> "none"]

\* ------------------------------------------------------- EncryptionService
\* strings are sequences of characters; a hex string is what Buffer.toString('hex')
\* writes and Buffer.from(s, 'hex') reads
HexLower == <<"0", "1", "2", "3", "4", "5", "6", "7", "8", "9", "a", "b", "c", "d", "e", "f">>
HexUpper == <<"A", "B", "C", "D", "E", "F">>

\* the value of a hex digit, in either case; -1 for any other character
HexVal(c) ==
  IF \E i \in 1..16 : HexLower[i] = c THEN (CHOOSE i \in 1..16 : HexLower[i] = c) - 1
  ELSE IF \E i \in 1..6 : HexUpper[i] = c THEN (CHOOSE i \in 1..6 : HexUpper[i] = c) + 9
  ELSE -1

\* Buffer.from(s, 'hex'): one byte per pair of hex digits, in either case; decoding
\* stops without error at the first pair that is not two hex digits, and a
\* trailing single character is dropped
RECURSIVE HexDecode(_)
HexDecode(s) ==
  IF Len(s) < 2 \/ HexVal(s[1]) < 0 \/ HexVal(s[2]) < 0 THEN <<>>
  ELSE <<16 * HexVal(s[1]) + HexVal(s[2])>> \o HexDecode(SubSeq(s, 3, Len(s)))

\* mutant: a byte below 16 is written as one digit
RECURSIVE HexEncode_NoPadding(_)
HexEncode_NoPadding(b) ==
  IF b = <<>> THEN <<>>
  ELSE (IF b[1] < 16 THEN <<HexLower[b[1] + 1]>>
        ELSE <<HexLower[(b[1] \div 16) + 1], HexLower[(b[1] % 16) + 1]>>)
       \o HexEncode_NoPadding(Tail(b))

\* buf.toString('hex'): two lowercase digits per byte
RECURSIVE HexEncode(_)
HexEncode(b) ==
  IF b = <<>> THEN <<>>
  ELSE <<HexLower[(b[1] \div 16) + 1], HexLower[(b[1] % 16) + 1]>> \o HexEncode(Tail(b))

\* the characters of the payloads at hand: a digit, a separator, and one
\* character that takes two bytes in UTF-8
Replacement == "U+FFFD"
Utf8Of(c) == CASE c = "3" -> <<51>> [] c = ";" -> <<59>> [] c = "e_acute" -> <<195, 169>>
               [] OTHER -> <<239, 191, 189>>

\* cipher.update(data, 'utf-8', ...): the bytes of a string
RECURSIVE Utf8Encode(_)
Utf8Encode(text) ==
  IF text = <<>> THEN <<>> ELSE Utf8Of(text[1]) \o Utf8Encode(Tail(text))

\* decipher.update(..., 'utf-8') + final('utf-8'): the string of a byte sequence;
\* a byte that starts no character of the set decodes to U+FFFD
RECURSIVE Utf8Decode(_)
Utf8Decode(b) ==
  IF b = <<>> THEN <<>>
  ELSE IF b[1] = 51 THEN <<"3">> \o Utf8Decode(Tail(b))
  ELSE IF b[1] = 59 THEN <<";">> \o Utf8Decode(Tail(b))
  ELSE IF Len(b) >= 2 /\ b[1] = 195 /\ b[2] = 169
    THEN <<"e_acute">> \o Utf8Decode(SubSeq(b, 3, Len(b)))
  ELSE <<Replacement>> \o Utf8Decode(Tail(b))

\* bitwise exclusive or of two bytes
RECURSIVE Xor(_, _)
Xor(a, b) ==
  IF a = 0 THEN b ELSE IF b = 0 THEN a
  ELSE ((a + b) % 2) + 2 * Xor(a \div 2, b \div 2)

RECURSIVE SumOf(_)
SumOf(b) == IF b = <<>> THEN 0 ELSE b[1] + SumOf(Tail(b))

\* the cipher of createCipheriv('aes-256-gcm', key, iv): counter mode, one
\* keystream byte per position, decided by the key and the iv
KeyStream(key, iv, n) == (37 * key.id + 11 * SumOf(iv) + 101 * n + Len(iv)) % 256

RECURSIVE Crypt(_, _, _, _)
Crypt(key, iv, b, n) ==
  IF b = <<>> THEN <<>>
  ELSE <<Xor(b[1], KeyStream(key, iv, n))>> \o Crypt(key, iv, Tail(b), n + 1)

\* cipher.getAuthTag(): the tag of a key, an iv and a ciphertext.  The tag is
\* kept collision-free by spelling out what it authenticates
AuthTag(key, iv, ct) == <<key.id, Len(iv)>> \o iv \o ct

\* the key length createCipheriv accepts for aes-256-gcm
KeyBytes == 32
\* initializeKeys: the shortest key string it accepts
MinKeyChars == 32

Thrown == [ok |-> FALSE]

\* EncryptionService.encrypt with the 16 random bytes drawn as iv (also
\* ApiEncryptionHelper.encrypt, which makes the same calls)
Encrypt(key, iv, data) ==
  IF key.len # KeyBytes THEN Thrown
  ELSE LET ct == Crypt(key, iv, Utf8Encode(data), 0)
       IN [ok |-> TRUE, ciphertext |-> HexEncode(ct), iv |-> HexEncode(iv),
           authTag |-> HexEncode(AuthTag(key, iv, ct))]

\* EncryptionService.decrypt: createDecipheriv, setAuthTag, update, final; any
\* error of the cipher is logged and thrown again
Decrypt(key, payload) ==
  LET iv  == HexDecode(payload.iv)
      tag == HexDecode(payload.authTag)
      ct  == HexDecode(payload.ciphertext)
  IN IF key.len # KeyBytes \/ iv = <<>> \/ tag # AuthTag(key, iv, ct) THEN Thrown
     ELSE [ok |-> TRUE, text |-> Utf8Decode(Crypt(key, iv, ct, 0))]

\* JSON.parse on the payloads at hand: a run of digits is a number, anything
\* else a SyntaxError
JsonParse(text) ==
  IF text # <<>> /\ \A i \in 1..Len(text) : text[i] = "3"
  THEN [ok |-> TRUE, value |-> <<"number", text>>]
  ELSE Thrown

\* key strings, by what initializeKeys looks at: the number of characters, how
\* many of them from the start are hex digits, and whether one of the first 32
\* is a character of two bytes in UTF-8
KeyLengths == {0, 31, 32, 64, 65}
KeyStrings ==
  {k \in [id : {1}, len : KeyLengths, hexLen : KeyLengths, wide : BOOLEAN] :
     /\ k.hexLen \in {0, k.len}
     /\ k.wide => (k.len > 0 /\ k.hexLen = 0)}
EmptyString == [id |-> 1, len |-> 0, hexLen |-> 0, wide |-> FALSE]
\* a configured key or an environment variable that is not set
Unset == [id |-> 0, len |-> 0, hexLen |-> 0, wide |-> FALSE]

\* Buffer.from(s, 'hex').length
HexBytes(s) == s.hexLen \div 2
\* Buffer.from(s, 'hex')
HexKey(s) == [id |-> s.id, how |-> "hex", len |-> HexBytes(s)]
\* Buffer.from(s.padEnd(32, '0').substring(0, 32)): the UTF-8 bytes of 32 characters
RawKey(s) == [id |-> s.id, how |-> "raw", len |-> IF s.wide THEN MinKeyChars + 1 ELSE MinKeyChars]

\* EncryptionService.initializeKeys: cfg is the configured 'encryptionKey', env
\* the ENCRYPTION_KEY variable
InitializeKeys(cfg, env) ==
  LET envKey == IF env = Unset THEN EmptyString ELSE env
      keyStr == IF cfg # Unset THEN cfg ELSE envKey
  IN IF keyStr.len < MinKeyChars
     THEN \* the throw, and the catch block's fallback to the environment
          IF envKey.len >= MinKeyChars THEN HexKey(envKey) ELSE RawKey(envKey)
     ELSE IF HexBytes(keyStr) = KeyBytes THEN HexKey(keyStr) ELSE RawKey(keyStr)

\* the string initializeKeys makes the key from: the configured key or, when
\* none is configured or the catch block takes over, the environment's
ServerKeyString(cfg, env) ==
  LET envKey == IF env = Unset THEN EmptyString ELSE env
      keyStr == IF cfg # Unset THEN cfg ELSE envKey
  IN IF keyStr.len < MinKeyChars THEN envKey ELSE keyStr

\* new ApiEncryptionHelper(encryptionKeyHex), for a key string of at least 32
\* characters (the constructor throws for a shorter one)
HelperKey(encryptionKeyHex) ==
  IF HexBytes(encryptionKeyHex) = KeyBytes THEN HexKey(encryptionKeyHex)
  ELSE RawKey(encryptionKeyHex)

\* JSON.stringify of a value JSON.parse returns
JsonStringify(value) == value[2]

\* payloads a client encrypts
Payloads == {<<"number", <<"3">>>>, <<"number", <<"3", "3">>>>}

NoKey == [id |-> 0, how |-> "none", len |-> 0]
NoEnvelope == [ok |-> FALSE]

\* payload strings and the 16 random bytes of an iv (one byte stands for them)
TextChars == {"3", ";", "e_acute"}
Texts == UNION {[1..n -> TextChars] : n \in 0..MaxText}
Ivs == {<<10>>, <<171>>}

\* the 'encryptionKey' of the local defaults and of the sample environment
DefaultKeyString == [id |-> 1, len |-> 32, hexLen |-> 32, wide |-> FALSE]

\* the service as constructed from a configured key and an environment key
Constructed(cfg, env) ==
  [pc |-> "ready", cfg |-> cfg, env |-> env, key |-> InitializeKeys(cfg, env),
   data |-> <<>>, sealed |-> NoEnvelope, payload |-> NoEnvelope, changed |-> "none",
   res |-> Thrown]

\* ---------------------------------------------------------- request pipeline
\* a request body: none, or an object that has some of the envelope fields, or
\* the value the decrypt gate has put in its place
NoBody == [kind |-> "none", has |-> {}, ciphertext |-> <<>>, iv |-> <<>>,
           authTag |-> <<>>, value |-> <<>>]
PlainBody == [NoBody EXCEPT !.kind = "object"]
EnvelopeBody(e) == [kind |-> "object", has |-> {"ciphertext", "iv", "authTag"},
                    ciphertext |-> e.ciphertext, iv |-> e.iv, authTag |-> e.authTag,
                    value |-> <<>>]
Parsed(v) == [NoBody EXCEPT !.kind = "parsed", !.value = v]

NoApiKey == 0       \* a header or query parameter that is not there
EmptyApiKey == -1   \* a header or query parameter that is there with the value ''
GateSlot == "r1"    \* the slot the gate's validateApiKey call runs in

NoRequest == [pc |-> "idle", method |-> "none", hdr |-> NoApiKey, qry |-> NoApiKey,
              received |-> NoBody, body |-> NoBody, apiKey |-> NoApiKey,
              clientName |-> "none", validated |-> "none", decrypts |-> 0,
              handled |-> FALSE, status |-> 0, message |-> "none"]

\* the stores as the services find them when the application starts
InitStores ==
  /\ now = 0
  /\ session = [t \in Tokens |-> Absent]
  /\ metadata = [t \in Tokens |-> Absent]
  /\ users = [e \in Emails |-> <<>>]
  /\ proc = [p \in Procs |-> Idle]
  /\ issuedAt = [t \in Tokens |-> -1]
  /\ metaAt = [t \in Tokens |-> -1]
  /\ logoutBegun = [t \in Tokens |-> FALSE]
  /\ loggedOut = [t \in Tokens |-> FALSE]
  /\ kproc = [p \in Procs |-> KIdle]

Init ==
  /\ InitStores
  /\ apiKeys = [k \in Keys |-> NoRow]
  /\ config \in {Configured(Decimal(n)) : n \in 0..MaxTtl}
  /\ sessionTtl = SessionTtl(config)
  /\ dynConfig = NotInjected
  /\ history = NoHistory
  /\ pool = Issuable
  /\ masking = NoMasking
  /\ faults \in BOOLEAN
  /\ codec = Constructed(Unset, DefaultKeyString)
  /\ req = NoRequest

Tick ==
  /\ now < MaxTime
  /\ now' = now + 1
  /\ session' = [t \in Tokens |-> Expire(session[t], now + 1)]
  /\ metadata' = [t \in Tokens |-> Expire(metadata[t], now + 1)]
  /\ UNCHANGED <<sessionTtl, users, proc, issuedAt, metaAt, logoutBegun, loggedOut,
                 apiKeys, kproc, codec, req, pool, faults, masking, config, dynConfig,
                 history>>

\* mutant: the branch asks for the metadata record first
CheckSessionStatus_MetadataFirst(sessionData, meta) ==
  IF meta THEN [valid |-> FALSE, expired |-> TRUE]
  ELSE IF sessionData THEN [valid |-> TRUE, expired |-> FALSE]
  ELSE [valid |-> FALSE, expired |-> FALSE]

\* mutant: an expired status is reported with the code of an invalid one
VerifySessionOutcome_OneCode(status) ==
  IF status.valid THEN [valid |-> TRUE, expired |-> FALSE, code |-> "null"]
  ELSE [valid |-> FALSE, expired |-> status.expired, code |-> "SESSION_INVALID"]

\* mutant: without the session record, the branch reports expired when the
\* metadata record is absent too
CheckSessionStatus_ExpiredWhenGone(sessionData, meta) ==
  IF sessionData THEN [valid |-> TRUE, expired |-> FALSE]
  ELSE IF meta THEN [valid |-> FALSE, expired |-> FALSE]
  ELSE [valid |-> FALSE, expired |-> TRUE]

\* ------------------------------------------------ RedisService: session status
\* the three-way branch of checkSessionStatus on the two values it has read
CheckSessionStatus(sessionData, meta) ==
  IF sessionData THEN [valid |-> TRUE, expired |-> FALSE]
  ELSE IF meta THEN [valid |-> FALSE, expired |-> TRUE]
  ELSE [valid |-> FALSE, expired |-> FALSE]

\* AuthService.verifySession: the mapping of a status to its outcome
VerifySessionOutcome(status) ==
  IF status.valid THEN [valid |-> TRUE, expired |-> FALSE, code |-> "null"]
  ELSE IF status.expired THEN [valid |-> FALSE, expired |-> TRUE, code |-> "SESSION_EXPIRED"]
  ELSE [valid |-> FALSE, expired |-> FALSE, code |-> "SESSION_INVALID"]

\* AuthService.verifySession: the catch block
VerifySessionCaught == [valid |-> FALSE, expired |-> FALSE, code |-> "DATABASE_ERROR"]

\* LoginController.verifySession: the response body made of what
\* AuthService.verifySession returned (the timestamp left out)
NoReason == "none"    \* a response without the reason field
VerifyEndpoint(result) ==
  IF result.valid
  THEN [valid |-> TRUE, message |-> "Session is valid", code |-> "null",
        reason |-> NoReason]
  ELSE IF result.expired
  THEN [valid |-> FALSE, message |-> "Session token has expired",
        code |-> result.code, reason |-> "EXPIRED"]
  ELSE [valid |-> FALSE, message |-> "Session token is invalid or does not exist",
        code |-> result.code, reason |-> "INVALID"]

\* a request arrives at POST /api/auth/verify and verifySession(t) is invoked
StartVerify(p, t) ==
  /\ proc[p].pc = "idle"
  /\ Presentable(t)
  /\ proc' = [proc EXCEPT ![p] =
       [Idle EXCEPT !.pc = "v_get1", !.op = "verify", !.tok = t,
                    !.phase = PhaseAtStart(t),
                    !.floor = IF history.recorded /\ t \in returned
                              THEN history.top[t] ELSE -1]]
  /\ UNCHANGED <<now, sessionTtl, session, metadata, users, issuedAt, metaAt,
                 logoutBegun, loggedOut, apiKeys, kproc, codec, req, pool, faults,
                 masking, config, dynConfig, history>>

\* mutant: reading the session record renews its TTL (sliding expiration)
VerifyGetSession_RenewsTtl(p) ==
  /\ proc[p].pc = "v_get1"
  /\ \E ok \in Outcomes :
       /\ proc' = [proc EXCEPT ![p] =
            IF ok THEN [proc[p] EXCEPT !.pc = "v_get2",
                                       !.sawSession = RedisGet(session[proc[p].tok])]
            ELSE [proc[p] EXCEPT !.pc = "done", !.failed = TRUE, !.res = VerifySessionCaught,
                            !.response = VerifyEndpoint(VerifySessionCaught)]]
       /\ session' = IF ok /\ RedisGet(session[proc[p].tok])
                     THEN [session EXCEPT ![proc[p].tok] =
                             RedisSet(sessionTtl, session[proc[p].tok].email)]
                     ELSE session
  /\ UNCHANGED <<now, sessionTtl, metadata, users, issuedAt, metaAt, logoutBegun,
                 loggedOut, apiKeys, kproc, codec, req, pool, faults, masking, config,
                 dynConfig, history>>

\* checkSessionStatus: const sessionData = await this.get(sessionKey)
VerifyGetSession(p) ==
  /\ proc[p].pc = "v_get1"
  /\ \E ok \in Outcomes :
       proc' = [proc EXCEPT ![p] =
         IF ok THEN [proc[p] EXCEPT !.pc = "v_get2",
                                    !.sawSession = RedisGet(session[proc[p].tok])]
         ELSE [proc[p] EXCEPT !.pc = "done", !.failed = TRUE, !.res = VerifySessionCaught,
                            !.response = VerifyEndpoint(VerifySessionCaught)]]
  /\ UNCHANGED <<now, sessionTtl, session, metadata, users, issuedAt, metaAt,
                 logoutBegun, loggedOut, apiKeys, kproc, codec, req, pool, faults,
                 masking, config, dynConfig, history>>

\* checkSessionStatus: const metadata = await this.get(metadataKey), then the
\* branch, then verifySession's mapping of what it returned
VerifyGetMetadata(p) ==
  /\ proc[p].pc = "v_get2"
  /\ \E ok \in Outcomes :
       LET m  == RedisGet(metadata[proc[p].tok])
           st == CheckSessionStatus(proc[p].sawSession, m)
       IN /\ proc' = [proc EXCEPT ![p] =
               IF ok
               THEN [proc[p] EXCEPT !.pc = "done", !.sawMeta = m, !.status = st,
                                    !.res = VerifySessionOutcome(st),
                                    !.response = VerifyEndpoint(VerifySessionOutcome(st))]
               ELSE [proc[p] EXCEPT !.pc = "done", !.failed = TRUE,
                                    !.res = VerifySessionCaught,
                                    !.response = VerifyEndpoint(VerifySessionCaught)]]
          /\ history' = IF ok /\ proc[p].floor >= 0 THEN Observe(proc[p].tok, st)
                        ELSE history
  /\ UNCHANGED <<now, sessionTtl, session, metadata, users, issuedAt, metaAt,
                 logoutBegun, loggedOut, apiKeys, kproc, codec, req, pool, faults,
                 masking, config, dynConfig>>

\* ---------------------------------------------------------- getUserFromSession
\* what getUserFromSession answers for a session it cannot read
NullUser == [found |-> FALSE, email |-> Empty]

\* JSON.parse of the value storeSession wrote under session:<t>
ParsedSession(rec) == [found |-> TRUE, email |-> rec.email]

\* getUserFromSession(t) is invoked
StartGetUser(p, t) ==
  /\ proc[p].pc = "idle"
  /\ Presentable(t)
  /\ proc' = [proc EXCEPT ![p] = [Idle EXCEPT !.pc = "u_get", !.op = "getuser",
                                              !.tok = t, !.phase = PhaseAtStart(t)]]
  /\ UNCHANGED <<now, sessionTtl, session, metadata, users, issuedAt, metaAt,
                 logoutBegun, loggedOut, apiKeys, kproc, codec, req, pool, faults,
                 masking, config, dynConfig, history>>

\* mutant: the session is looked up under its metadata key
GetUserRead_ReadsMetadata(p) ==
  /\ proc[p].pc = "u_get"
  /\ \E ok \in Outcomes :
       proc' = [proc EXCEPT ![p] =
         IF ~ok THEN [proc[p] EXCEPT !.pc = "done", !.failed = TRUE, !.res = NullUser]
         ELSE IF ~RedisGet(metadata[proc[p].tok])
         THEN [proc[p] EXCEPT !.pc = "done", !.res = NullUser]
         ELSE [proc[p] EXCEPT !.pc = "done", !.sawMeta = TRUE,
                              !.res = ParsedSession(metadata[proc[p].tok])]]
  /\ UNCHANGED <<now, sessionTtl, session, metadata, users, issuedAt, metaAt,
                 logoutBegun, loggedOut, apiKeys, kproc, codec, req, pool, faults,
                 masking, config, dynConfig, history>>

\* getUserFromSession: await this.redisService.get(sessionKey), null for a
\* record that is not there, else JSON.parse of it; a rejected read (or a
\* parse that throws) lands in the catch block, which returns null
GetUserRead(p) ==
  /\ proc[p].pc = "u_get"
  /\ \E ok \in Outcomes :
       proc' = [proc EXCEPT ![p] =
         IF ~ok THEN [proc[p] EXCEPT !.pc = "done", !.failed = TRUE, !.res = NullUser]
         ELSE IF ~RedisGet(session[proc[p].tok])
         THEN [proc[p] EXCEPT !.pc = "done", !.res = NullUser]
         ELSE [proc[p] EXCEPT !.pc = "done", !.sawSession = TRUE,
                              !.res = ParsedSession(session[proc[p].tok])]]
  /\ UNCHANGED <<now, sessionTtl, session, metadata, users, issuedAt, metaAt,
                 logoutBegun, loggedOut, apiKeys, kproc, codec, req, pool, faults,
                 masking, config, dynConfig, history>>

\* ------------------------------------------------------ logout / deleteSession
\* LoginController.logout: the answer of the endpoint, whatever logout did
LogoutResponse == [message |-> "Logged out successfully"]

\* a request arrives at POST /api/auth/logout; logout(t) calls deleteSession(t)
StartLogout(p, t) ==
  /\ proc[p].pc = "idle"
  /\ Presentable(t)
  /\ proc' = [proc EXCEPT ![p] = [Idle EXCEPT !.pc = "d_del1", !.op = "logout",
                                              !.tok = t, !.phase = PhaseAtStart(t)]]
  /\ logoutBegun' = [logoutBegun EXCEPT ![t] = @ \/ t \in returned]
  /\ UNCHANGED <<now, sessionTtl, session, metadata, users, issuedAt, metaAt,
                 loggedOut, apiKeys, kproc, codec, req, pool, faults, masking, config,
                 dynConfig, history>>

\* mutant: the delete is made with the key prefix, and removes the session
\* record of every token
DeleteSessionKey_EverySession(p) ==
  /\ proc[p].pc = "d_del1"
  /\ \E ok \in Outcomes :
       /\ session' = IF ok THEN [t \in Tokens |-> Absent] ELSE session
       /\ proc' = [proc EXCEPT ![p] = [proc[p] EXCEPT !.pc = "d_del2", !.failed = ~ok,
                                         !.deleted = IF ok THEN {"session"} ELSE {}]]
  /\ UNCHANGED <<now, sessionTtl, metadata, users, issuedAt, metaAt, logoutBegun,
                 loggedOut, apiKeys, kproc, codec, req, pool, faults, masking, config,
                 dynConfig, history>>

\* mutant: the deletes are awaited one after the other, so a rejected first
\* delete ends deleteSession
DeleteSessionKey_StopsOnFailure(p) ==
  /\ proc[p].pc = "d_del1"
  /\ \E ok \in Outcomes :
       /\ session' = IF ok THEN [session EXCEPT ![proc[p].tok] = Absent] ELSE session
       /\ proc' = [proc EXCEPT ![p] =
            IF ok THEN [proc[p] EXCEPT !.pc = "d_del2", !.deleted = {"session"}]
            ELSE [proc[p] EXCEPT !.pc = "done", !.failed = TRUE, !.res = LogoutResponse]]
  /\ UNCHANGED <<now, sessionTtl, metadata, users, issuedAt, metaAt, logoutBegun,
                 loggedOut, apiKeys, kproc, codec, req, pool, faults, masking, config,
                 dynConfig, history>>

\* deleteSession: this.delete(sessionKey), the first promise of Promise.all
DeleteSessionKey(p) ==
  /\ proc[p].pc = "d_del1"
  /\ \E ok \in Outcomes :
       /\ session' = IF ok THEN [session EXCEPT ![proc[p].tok] = Absent] ELSE session
       /\ proc' = [proc EXCEPT ![p] = [proc[p] EXCEPT !.pc = "d_del2", !.failed = ~ok,
                      !.deleted = IF ok THEN {"session"} ELSE {}]]
  /\ UNCHANGED <<now, sessionTtl, metadata, users, issuedAt, metaAt, logoutBegun,
                 loggedOut, apiKeys, kproc, codec, req, pool, faults, masking, config,
                 dynConfig, history>>

\* mutant: deleteSession forgets the metadata record
DeleteMetadataKey_Forgotten(p) ==
  /\ proc[p].pc = "d_del2"
  /\ proc' = [proc EXCEPT ![p] = [proc[p] EXCEPT !.pc = "done", !.res = LogoutResponse]]
  /\ loggedOut' = [loggedOut EXCEPT ![proc[p].tok] =
                     @ \/ (~proc[p].failed /\ proc[p].tok \in returned)]
  /\ UNCHANGED <<now, sessionTtl, session, metadata, users, issuedAt, metaAt,
                 logoutBegun, apiKeys, kproc, codec, req, pool, faults, masking,
                 config, dynConfig, history>>

\* mutant: logout has no catch block, a rejected delete reaches the controller
DeleteMetadataKey_Rethrows(p) ==
  /\ proc[p].pc = "d_del2"
  /\ \E ok \in Outcomes :
       /\ metadata' = IF ok THEN [metadata EXCEPT ![proc[p].tok] = Absent] ELSE metadata
       /\ proc' = [proc EXCEPT ![p] = [proc[p] EXCEPT !.pc = "done", !.failed = @ \/ ~ok,
                      !.res = IF ok /\ ~proc[p].failed THEN LogoutResponse
                              ELSE [message |-> "Internal server error"]]]
       /\ loggedOut' = [loggedOut EXCEPT ![proc[p].tok] =
                          @ \/ (ok /\ ~proc[p].failed /\ proc[p].tok \in returned)]
  /\ UNCHANGED <<now, sessionTtl, session, users, issuedAt, metaAt, logoutBegun,
                 apiKeys, kproc, codec, req, pool, faults, masking, config, dynConfig,
                 history>>

\* deleteSession: this.delete(metadataKey), the second promise of Promise.all;
\* logout swallows a rejection and the controller answers
DeleteMetadataKey(p) ==
  /\ proc[p].pc = "d_del2"
  /\ \E ok \in Outcomes :
       /\ metadata' = IF ok THEN [metadata EXCEPT ![proc[p].tok] = Absent] ELSE metadata
       /\ proc' = [proc EXCEPT ![p] = [proc[p] EXCEPT !.pc = "done", !.failed = @ \/ ~ok,
                      !.deleted = IF ok THEN @ \cup {"metadata"} ELSE @,
                      !.res = LogoutResponse]]
       /\ loggedOut' = [loggedOut EXCEPT ![proc[p].tok] =
                          @ \/ (ok /\ ~proc[p].failed /\ proc[p].tok \in returned)]
  /\ UNCHANGED <<now, sessionTtl, session, users, issuedAt, metaAt, logoutBegun,
                 apiKeys, kproc, codec, req, pool, faults, masking, config, dynConfig,
                 history>>

\* ------------------------------------------------- login / signup / storeSession
\* the codes login and signup answer with, and the text of each
ErrorCodes == {"MISSING_INFORMATION", "EMAIL_NOT_FOUND", "INCORRECT_PASSWORD",
               "EMAIL_ALREADY_EXISTS", "DATABASE_ERROR"}
ERROR_CODE_MESSAGES ==
  [code \in ErrorCodes |->
     CASE code = "MISSING_INFORMATION"  -> "Email and password are required"
       [] code = "EMAIL_NOT_FOUND"      -> "Email address not found in the system"
       [] code = "INCORRECT_PASSWORD"   -> "Password is incorrect"
       [] code = "EMAIL_ALREADY_EXISTS" -> "Email already registered"
       [] code = "DATABASE_ERROR"       -> "Database error occurred"]

\* the passwords of the signups for email e that have answered success, as far
\* as their requests are still at hand
SignedUp(e) ==
  {proc[q].password : q \in {r \in Procs : /\ proc[r].op = "signup"
                                            /\ proc[r].pc = "done"
                                            /\ proc[r].email = e
                                            /\ proc[r].res.success}}

NoCode == "none"    \* a response without the optional code field

\* AuthService.createErrorResponse: success and the message of the code; the
\* response carries no sessionToken and no code
CreateErrorResponse(code) ==
  [success |-> FALSE, message |-> ERROR_CODE_MESSAGES[code], sessionToken |-> NoToken,
   code |-> NoCode]

\* the success response of login and signup
SuccessResponse(t, msg) ==
  [success |-> TRUE, message |-> msg, sessionToken |-> t, code |-> NoCode]

\* generateSessionToken: 32 random bytes, so a token no request has presented
\* and no session was stored under
Fresh(t) == issuedAt[t] < 0 /\ ~Busy(t)
GenerateSessionToken(t) == t \in pool /\ Fresh(t)

\* mutant: login looks the user up before it validates its input
StartLogin_LookupFirst(p, e, pw) ==
  /\ proc[p].pc = "idle"
  /\ proc' = [proc EXCEPT ![p] =
       [Idle EXCEPT !.pc = "l_find", !.op = "login", !.email = e, !.password = pw,
                    !.after = SignedUp(e)]]
  /\ UNCHANGED <<now, sessionTtl, session, metadata, users, issuedAt, metaAt,
                 logoutBegun, loggedOut, apiKeys, kproc, codec, req, pool, faults,
                 masking, config, dynConfig, history>>

\* a request arrives at POST /api/auth/login; login validates its input
StartLogin(p, e, pw) ==
  /\ proc[p].pc = "idle"
  /\ proc' = [proc EXCEPT ![p] =
       IF e = Empty \/ pw = Empty
       THEN [Idle EXCEPT !.pc = "done", !.op = "login", !.email = e, !.password = pw,
                         !.res = CreateErrorResponse("MISSING_INFORMATION")]
       ELSE [Idle EXCEPT !.pc = "l_find", !.op = "login", !.email = e, !.password = pw,
                         !.after = SignedUp(e)]]
  /\ UNCHANGED <<now, sessionTtl, session, metadata, users, issuedAt, metaAt,
                 logoutBegun, loggedOut, apiKeys, kproc, codec, req, pool, faults,
                 masking, config, dynConfig, history>>

\* login: the MATCH query for the user with this email
LoginFindUser(p) ==
  /\ proc[p].pc = "l_find"
  /\ \E ok \in Outcomes :
       proc' = [proc EXCEPT ![p] =
         IF ~ok THEN [proc[p] EXCEPT !.pc = "done", !.failed = TRUE, !.lookups = @ + 1,
                                     !.res = CreateErrorResponse("DATABASE_ERROR")]
         ELSE IF Len(users[proc[p].email]) = 0
         THEN [proc[p] EXCEPT !.pc = "done", !.lookups = @ + 1,
                              !.res = CreateErrorResponse("EMAIL_NOT_FOUND")]
         ELSE [proc[p] EXCEPT !.pc = "l_compare", !.lookups = @ + 1, !.found = TRUE,
                              !.hash = users[proc[p].email][1]]]
  /\ UNCHANGED <<now, sessionTtl, session, metadata, users, issuedAt, metaAt,
                 logoutBegun, loggedOut, apiKeys, kproc, codec, req, pool, faults,
                 masking, config, dynConfig, history>>

\* login: bcrypt compare, then generateSessionToken
LoginCompare(p) ==
  /\ proc[p].pc = "l_compare"
  /\ \/ /\ faults
        /\ proc' = [proc EXCEPT ![p] = [proc[p] EXCEPT !.pc = "done", !.failed = TRUE,
                                          !.compares = @ + 1,
                                          !.res = CreateErrorResponse("DATABASE_ERROR")]]
     \/ /\ ~Compare(proc[p].password, proc[p].hash)
        /\ proc' = [proc EXCEPT ![p] = [proc[p] EXCEPT !.pc = "done", !.compares = @ + 1,
                                          !.res = CreateErrorResponse("INCORRECT_PASSWORD")]]
     \/ /\ Compare(proc[p].password, proc[p].hash)
        /\ \E t \in Tokens :
             /\ GenerateSessionToken(t)
             /\ proc' = [proc EXCEPT ![p] = [proc[p] EXCEPT !.pc = "s_set1", !.tok = t,
                                               !.compares = @ + 1]]
  /\ UNCHANGED <<now, sessionTtl, session, metadata, users, issuedAt, metaAt,
                 logoutBegun, loggedOut, apiKeys, kproc, codec, req, pool, faults,
                 masking, config, dynConfig, history>>

\* a request arrives at POST /api/auth/signup; signup validates its input
StartSignup(p, e, pw) ==
  /\ proc[p].pc = "idle"
  /\ proc' = [proc EXCEPT ![p] =
       IF e = Empty \/ pw = Empty
       THEN [Idle EXCEPT !.pc = "done", !.op = "signup", !.email = e, !.password = pw,
                         !.res = CreateErrorResponse("MISSING_INFORMATION")]
       ELSE [Idle EXCEPT !.pc = "g_find", !.op = "signup", !.email = e, !.password = pw,
                         !.after = SignedUp(e)]]
  /\ UNCHANGED <<now, sessionTtl, session, metadata, users, issuedAt, metaAt,
                 logoutBegun, loggedOut, apiKeys, kproc, codec, req, pool, faults,
                 masking, config, dynConfig, history>>

\* signup: the MATCH query that ensures the user does not already exist
SignupFindUser(p) ==
  /\ proc[p].pc = "g_find"
  /\ \E ok \in Outcomes :
       proc' = [proc EXCEPT ![p] =
         IF ~ok THEN [proc[p] EXCEPT !.pc = "done", !.failed = TRUE, !.lookups = @ + 1,
                                     !.res = CreateErrorResponse("DATABASE_ERROR")]
         ELSE IF Len(users[proc[p].email]) > 0
         THEN [proc[p] EXCEPT !.pc = "done", !.lookups = @ + 1, !.found = TRUE,
                              !.res = CreateErrorResponse("EMAIL_ALREADY_EXISTS")]
         ELSE [proc[p] EXCEPT !.pc = "g_hash", !.lookups = @ + 1]]
  /\ UNCHANGED <<now, sessionTtl, session, metadata, users, issuedAt, metaAt,
                 logoutBegun, loggedOut, apiKeys, kproc, codec, req, pool, faults,
                 masking, config, dynConfig, history>>

\* signup: bcrypt hash of the incoming password
SignupHash(p) ==
  /\ proc[p].pc = "g_hash"
  /\ \E ok \in Outcomes :
       proc' = [proc EXCEPT ![p] =
         IF ~ok THEN [proc[p] EXCEPT !.pc = "done", !.failed = TRUE,
                                     !.res = CreateErrorResponse("DATABASE_ERROR")]
         ELSE [proc[p] EXCEPT !.pc = "g_create", !.hash = Hash(proc[p].password)]]
  /\ UNCHANGED <<now, sessionTtl, session, metadata, users, issuedAt, metaAt,
                 logoutBegun, loggedOut, apiKeys, kproc, codec, req, pool, faults,
                 masking, config, dynConfig, history>>

\* signup: the CREATE query, then generateSessionToken
SignupCreate(p) ==
  /\ proc[p].pc = "g_create"
  /\ \/ /\ faults
        /\ proc' = [proc EXCEPT ![p] = [proc[p] EXCEPT !.pc = "done", !.failed = TRUE,
                                          !.res = CreateErrorResponse("DATABASE_ERROR")]]
        /\ users' = users
     \/ \E t \in Tokens :
          /\ GenerateSessionToken(t)
          /\ users' = [users EXCEPT ![proc[p].email] = Append(@, proc[p].hash)]
          /\ proc' = [proc EXCEPT ![p] = [proc[p] EXCEPT !.pc = "s_set1", !.tok = t,
                                            !.created = TRUE]]
  /\ UNCHANGED <<now, sessionTtl, session, metadata, issuedAt, metaAt, logoutBegun,
                 loggedOut, apiKeys, kproc, codec, req, pool, faults, masking, config,
                 dynConfig, history>>

\* login / signup at generateSessionToken, its credential checks passed: the
\* steps before it touch only the identity store (NextAuth runs them one by one)
IssueSession(p, op, e) ==
  /\ proc[p].pc = "idle"
  /\ \E t \in Tokens :
       /\ GenerateSessionToken(t)
       /\ proc' = [proc EXCEPT ![p] = [Idle EXCEPT !.pc = "s_set1", !.op = op,
                                                   !.email = e, !.tok = t]]
  /\ UNCHANGED <<now, sessionTtl, session, metadata, users, issuedAt, metaAt,
                 logoutBegun, loggedOut, apiKeys, kproc, codec, req, pool, faults,
                 masking, config, dynConfig, history>>

\* mutant: the session data is written under the metadata key
StoreSessionKey_WrongKey(p) ==
  /\ proc[p].pc = "s_set1"
  /\ metadata' = [metadata EXCEPT ![proc[p].tok] = RedisSet(sessionTtl, proc[p].email)]
  /\ issuedAt' = [issuedAt EXCEPT ![proc[p].tok] = now]
  /\ proc' = [proc EXCEPT ![p] = [proc[p] EXCEPT !.pc = "s_set2"]]
  /\ UNCHANGED <<now, sessionTtl, session, users, metaAt, logoutBegun, loggedOut,
                 apiKeys, kproc, codec, req, pool, faults, masking, config, dynConfig,
                 history>>

\* storeSession: await this.set(sessionKey, JSON.stringify(data), ttl)
StoreSessionKey(p) ==
  /\ proc[p].pc = "s_set1"
  /\ \E ok \in Outcomes :
       /\ session' = IF ok THEN [session EXCEPT ![proc[p].tok] =
                                   RedisSet(sessionTtl, proc[p].email)]
                     ELSE session
       /\ issuedAt' = IF ok THEN [issuedAt EXCEPT ![proc[p].tok] = now] ELSE issuedAt
       /\ proc' = [proc EXCEPT ![p] =
            IF ok THEN [proc[p] EXCEPT !.pc = "s_set2"]
            ELSE [proc[p] EXCEPT !.pc = "done", !.failed = TRUE,
                                 !.res = CreateErrorResponse("DATABASE_ERROR")]]
  /\ UNCHANGED <<now, sessionTtl, metadata, users, metaAt, logoutBegun, loggedOut,
                 apiKeys, kproc, codec, req, pool, faults, masking, config, dynConfig,
                 history>>

\* mutant: the metadata record gets the TTL of the session record
StoreMetadataKey_SameTtl(p) ==
  /\ proc[p].pc = "s_set2"
  /\ metadata' = [metadata EXCEPT ![proc[p].tok] = RedisSet(sessionTtl, Empty)]
  /\ metaAt' = [metaAt EXCEPT ![proc[p].tok] = now]
  /\ proc' = [proc EXCEPT ![p] = [proc[p] EXCEPT !.pc = "done", !.res =
                SuccessResponse(proc[p].tok, "Login successful")]]
  /\ UNCHANGED <<now, sessionTtl, session, users, issuedAt, logoutBegun, loggedOut,
                 apiKeys, kproc, codec, req, pool, faults, masking, config, dynConfig,
                 history>>

\* mutant: the metadata key is built without the token, so it is shared
StoreMetadataKey_SharedKey(p) ==
  /\ proc[p].pc = "s_set2"
  /\ metadata' = [t \in Tokens |-> RedisSet(sessionTtl * 2, Empty)]
  /\ metaAt' = [metaAt EXCEPT ![proc[p].tok] = now]
  /\ proc' = [proc EXCEPT ![p] = [proc[p] EXCEPT !.pc = "done", !.res =
                SuccessResponse(proc[p].tok, "Login successful")]]
  /\ UNCHANGED <<now, sessionTtl, session, users, issuedAt, logoutBegun, loggedOut,
                 apiKeys, kproc, codec, req, pool, faults, masking, config, dynConfig,
                 history>>

\* mutant: the metadata record gets half the TTL of the session record
StoreMetadataKey_HalvedTtl(p) ==
  /\ proc[p].pc = "s_set2"
  /\ \E ok \in Outcomes :
       /\ metadata' = IF ok THEN [metadata EXCEPT ![proc[p].tok] =
                                    RedisSet(sessionTtl \div 2, Empty)]
                      ELSE metadata
       /\ metaAt' = IF ok THEN [metaAt EXCEPT ![proc[p].tok] = now] ELSE metaAt
       /\ proc' = [proc EXCEPT ![p] =
            IF ok THEN [proc[p] EXCEPT !.pc = "done", !.res =
                          SuccessResponse(proc[p].tok,
                            IF proc[p].op = "login" THEN "Login successful"
                                                    ELSE "Signup successful")]
            ELSE [proc[p] EXCEPT !.pc = "done", !.failed = TRUE,
                                 !.res = CreateErrorResponse("DATABASE_ERROR")]]
  /\ UNCHANGED <<now, sessionTtl, session, users, issuedAt, logoutBegun, loggedOut,
                 apiKeys, kproc, codec, req, pool, faults, masking, config, dynConfig,
                 history>>

\* storeSession: await this.set(metadataKey, JSON.stringify(metadata), ttl * 2),
\* then the success response of login / signup
StoreMetadataKey(p) ==
  /\ proc[p].pc = "s_set2"
  /\ \E ok \in Outcomes :
       /\ metadata' = IF ok THEN [metadata EXCEPT ![proc[p].tok] =
                                    RedisSet(sessionTtl * 2, Empty)]
                      ELSE metadata
       /\ metaAt' = IF ok THEN [metaAt EXCEPT ![proc[p].tok] = now] ELSE metaAt
       /\ proc' = [proc EXCEPT ![p] =
            IF ok THEN [proc[p] EXCEPT !.pc = "done", !.res =
                          SuccessResponse(proc[p].tok,
                            IF proc[p].op = "login" THEN "Login successful"
                                                    ELSE "Signup successful")]
            ELSE [proc[p] EXCEPT !.pc = "done", !.failed = TRUE,
                                 !.res = CreateErrorResponse("DATABASE_ERROR")]]
  /\ UNCHANGED <<now, sessionTtl, session, users, issuedAt, logoutBegun, loggedOut,
                 apiKeys, kproc, codec, req, pool, faults, masking, config, dynConfig,
                 history>>

\* the response has been sent: the slot is free for the next request
Return(p) ==
  /\ proc[p].pc = "done"
  /\ proc' = [proc EXCEPT ![p] = Idle]
  /\ UNCHANGED <<now, sessionTtl, session, metadata, users, issuedAt, metaAt,
                 logoutBegun, loggedOut, apiKeys, kproc, codec, req, pool, faults,
                 masking, config, dynConfig, history>>

\* --------------------------------------------- CassandraService / ApiKeyService
\* CassandraService.getApiKey: the row selected by api_key, or null
GetApiKey(k) ==
  IF apiKeys[k].found THEN [found |-> TRUE, isActive |-> apiKeys[k].isActive] ELSE Null

\* CassandraService.createApiKey: a fresh random key, inserted with is_active =
\* true; keys carry no content, so the least unused one stands for the draw
CreateApiKey(k) ==
  /\ ~apiKeys[k].found
  /\ \A j \in Keys : j < k => apiKeys[j].found
  /\ \E ok \in Outcomes :
       apiKeys' = IF ok THEN [apiKeys EXCEPT ![k] =
                                [found |-> TRUE, isActive |-> TRUE, lastUsed |-> -1]]
                  ELSE apiKeys
  /\ UNCHANGED <<now, sessionTtl, session, metadata, users, proc, issuedAt, metaAt,
                 logoutBegun, loggedOut, kproc, codec, req, pool, faults, masking,
                 config, dynConfig, history>>

\* the administrative deactivation of a key: its active flag is cleared
Deactivate(k) ==
  /\ apiKeys[k].found
  /\ apiKeys[k].isActive
  /\ apiKeys' = [apiKeys EXCEPT ![k].isActive = FALSE]
  /\ UNCHANGED <<now, sessionTtl, session, metadata, users, proc, issuedAt, metaAt,
                 logoutBegun, loggedOut, kproc, codec, req, pool, faults, masking,
                 config, dynConfig, history>>

\* validateApiKey(k) as invoked
Validating(k) ==
  [KIdle EXCEPT !.pc = "k_get", !.key = k,
                !.clearedAtStart = (apiKeys[k].found /\ ~apiKeys[k].isActive)]

\* ApiKeyGuard calls validateApiKey(k)
StartValidate(p, k) ==
  /\ kproc[p].pc = "idle"
  /\ kproc' = [kproc EXCEPT ![p] = Validating(k)]
  /\ UNCHANGED <<now, sessionTtl, session, metadata, users, proc, issuedAt, metaAt,
                 logoutBegun, loggedOut, apiKeys, codec, req, pool, faults, masking,
                 config, dynConfig, history>>

\* mutant: validateApiKey does not look at the active flag
ValidateLookup_NoActiveCheck(p) ==
  /\ kproc[p].pc = "k_get"
  /\ \E ok \in Outcomes :
       kproc' = [kproc EXCEPT ![p] =
         LET keyData == GetApiKey(kproc[p].key) IN
         IF ~ok THEN [kproc[p] EXCEPT !.pc = "done", !.lookupFailed = TRUE, !.res = FALSE]
         ELSE IF ~keyData.found THEN [kproc[p] EXCEPT !.pc = "done", !.res = FALSE]
         ELSE [kproc[p] EXCEPT !.pc = "k_upd", !.keyData = keyData]]
  /\ UNCHANGED <<now, sessionTtl, session, metadata, users, proc, issuedAt, metaAt,
                 logoutBegun, loggedOut, apiKeys, codec, req, pool, faults, masking,
                 config, dynConfig, history>>

\* validateApiKey: await getApiKey, then the not-found and not-active returns;
\* a rejected lookup lands in the catch block
ValidateLookup(p) ==
  /\ kproc[p].pc = "k_get"
  /\ \E ok \in Outcomes :
       kproc' = [kproc EXCEPT ![p] =
         LET keyData == GetApiKey(kproc[p].key) IN
         IF ~ok THEN [kproc[p] EXCEPT !.pc = "done", !.lookupFailed = TRUE, !.res = FALSE]
         ELSE IF ~keyData.found THEN [kproc[p] EXCEPT !.pc = "done", !.res = FALSE]
         ELSE IF ~keyData.isActive
         THEN [kproc[p] EXCEPT !.pc = "done", !.keyData = keyData, !.res = FALSE]
         ELSE [kproc[p] EXCEPT !.pc = "k_upd", !.keyData = keyData]]
  /\ UNCHANGED <<now, sessionTtl, session, metadata, users, proc, issuedAt, metaAt,
                 logoutBegun, loggedOut, apiKeys, codec, req, pool, faults, masking,
                 config, dynConfig, history>>

\* validateApiKey: await updateLastUsed inside the same try block, then return
\* true; a rejected update lands in the catch block, which returns false
ValidateUpdateLastUsed(p) ==
  /\ kproc[p].pc = "k_upd"
  /\ \E ok \in Outcomes :
       /\ apiKeys' = IF ok /\ apiKeys[kproc[p].key].found
                     THEN [apiKeys EXCEPT ![kproc[p].key].lastUsed = now]
                     ELSE apiKeys
       /\ kproc' = [kproc EXCEPT ![p] =
            IF ok THEN [kproc[p] EXCEPT !.pc = "done", !.res = TRUE]
            ELSE [kproc[p] EXCEPT !.pc = "done", !.updateFailed = TRUE, !.res = FALSE]]
  /\ UNCHANGED <<now, sessionTtl, session, metadata, users, proc, issuedAt, metaAt,
                 logoutBegun, loggedOut, codec, req, pool, faults, masking, config,
                 dynConfig, history>>

\* the guard has its answer: the slot is free for the next request
ValidateReturn(p) ==
  /\ kproc[p].pc = "done"
  /\ kproc' = [kproc EXCEPT ![p] = KIdle]
  /\ UNCHANGED <<now, sessionTtl, session, metadata, users, proc, issuedAt, metaAt,
                 logoutBegun, loggedOut, apiKeys, codec, req, pool, faults, masking,
                 config, dynConfig, history>>

\* ------------------------------------------- EncryptionService: its calls
\* new EncryptionService(...): the constructor runs initializeKeys
Constructor ==
  /\ codec.pc = "new"
  /\ codec' = Constructed(codec.cfg, codec.env)
  /\ UNCHANGED <<now, sessionTtl, session, metadata, users, proc, issuedAt, metaAt,
                 logoutBegun, loggedOut, apiKeys, kproc, req, pool, faults, masking,
                 config, dynConfig, history>>

\* encrypt(data) is called and draws its iv
EncryptCall(data, iv) ==
  /\ codec.pc = "ready"
  /\ LET e == Encrypt(codec.key, iv, data)
     IN codec' = [codec EXCEPT !.pc = IF e.ok THEN "sealed" ELSE "threw",
                               !.data = data, !.sealed = e, !.payload = e]
  /\ UNCHANGED <<now, sessionTtl, session, metadata, users, proc, issuedAt, metaAt,
                 logoutBegun, loggedOut, apiKeys, kproc, req, pool, faults, masking,
                 config, dynConfig, history>>

\* what one change makes of a string: a character replaced, one appended, or
\* the last one removed
ChangeChars == {"0", "f", "g", "A", "B", "C", "D", "E", "F"}
Changes(s) ==
  ({[s EXCEPT ![i] = c] : i \in 1..Len(s), c \in ChangeChars}
     \cup {Append(s, c) : c \in ChangeChars}
     \cup {SubSeq(s, 1, Len(s) - 1)}) \ {s}

\* the envelope is changed on its way back to the service
EnvelopeFields == {"ciphertext", "iv", "authTag"}
ChangeEnvelope(f) ==
  /\ codec.pc = "sealed"
  /\ \E v \in Changes(codec.sealed[f]) :
       codec' = [codec EXCEPT !.pc = "changed", !.changed = f,
                              !.payload = [codec.sealed EXCEPT ![f] = v]]
  /\ UNCHANGED <<now, sessionTtl, session, metadata, users, proc, issuedAt, metaAt,
                 logoutBegun, loggedOut, apiKeys, kproc, req, pool, faults, masking,
                 config, dynConfig, history>>

\* decrypt(payload) is called
DecryptCall ==
  /\ codec.pc \in {"sealed", "changed"}
  /\ codec' = [codec EXCEPT !.pc = "opened", !.res = Decrypt(codec.key, codec.payload)]
  /\ UNCHANGED <<now, sessionTtl, session, metadata, users, proc, issuedAt, metaAt,
                 logoutBegun, loggedOut, apiKeys, kproc, req, pool, faults, masking,
                 config, dynConfig, history>>

\* ------------------------------------------- ApiKeyGuard, DecryptPayloadInterceptor
Methods == {"GET", "POST", "PUT", "PATCH"}

\* envelopes a client makes: with the key of the service or with another key,
\* of a payload that is JSON or of one that is not
OtherKey == [id |-> 2, how |-> "hex", len |-> KeyBytes]
ClientEnvelopes ==
  {Encrypt(k, <<10>>, d) : k \in {codec.key, OtherKey}, d \in {<<"3">>, <<";">>}}

\* what arrives of an envelope: all of it, or one field left out, empty, with a
\* character appended or with its first character replaced
Bodies ==
  {NoBody, PlainBody}
    \cup {EnvelopeBody(e) : e \in ClientEnvelopes}
    \cup {[EnvelopeBody(e) EXCEPT !.has = @ \ {f}, ![f] = <<>>] :
            e \in ClientEnvelopes, f \in EnvelopeFields}
    \cup {[EnvelopeBody(e) EXCEPT ![f] = <<>>] : e \in ClientEnvelopes, f \in EnvelopeFields}
    \cup {[EnvelopeBody(e) EXCEPT ![f] = Append(@, "g")] :
            e \in ClientEnvelopes, f \in EnvelopeFields}
    \cup {[EnvelopeBody(e) EXCEPT ![f] = <<"g">> \o Tail(@)] :
            e \in ClientEnvelopes, f \in EnvelopeFields}

\* a request arrives: its method, its X-API-Key header, its api_key query
\* parameter and its body
Arrive ==
  /\ req.pc = "idle"
  /\ \E method \in Methods, hdr \in Keys \cup {NoApiKey, EmptyApiKey},
        qry \in Keys \cup {NoApiKey, EmptyApiKey}, body \in Bodies :
       req' = [NoRequest EXCEPT !.pc = "guard", !.method = method, !.hdr = hdr,
                                !.qry = qry, !.received = body, !.body = body]
  /\ UNCHANGED <<now, sessionTtl, session, metadata, users, proc, issuedAt, metaAt,
                 logoutBegun, loggedOut, apiKeys, kproc, codec, pool, faults, masking,
                 config, dynConfig, history>>

\* undefined and '' are the key values that count as false
FalsyKey(k) == k \in {NoApiKey, EmptyApiKey}

\* mutant: the api_key parameter is looked at before the header
ExtractApiKey_QueryFirst(r) == IF ~FalsyKey(r.qry) THEN r.qry ELSE r.hdr

\* ApiKeyGuard.extractApiKey: the X-API-Key header if it is truthy, else the
\* api_key parameter
ExtractApiKey(r) == IF ~FalsyKey(r.hdr) THEN r.hdr ELSE r.qry

Rejected(r, status, message) ==
  [r EXCEPT !.pc = "done", !.status = status, !.message = message]

\* ApiKeyGuard.canActivate up to its call of validateApiKey
CanActivate ==
  /\ req.pc = "guard"
  /\ LET apiKey == ExtractApiKey(req)
     IN IF FalsyKey(apiKey)
        THEN /\ req' = Rejected(req, 401, "Invalid or missing API key")
             /\ kproc' = kproc
        ELSE /\ kproc[GateSlot].pc = "idle"
             /\ kproc' = [kproc EXCEPT ![GateSlot] = Validating(apiKey)]
             /\ req' = [req EXCEPT !.pc = "validating"]
  /\ UNCHANGED <<now, sessionTtl, session, metadata, users, proc, issuedAt, metaAt,
                 logoutBegun, loggedOut, apiKeys, codec, pool, faults, masking, config,
                 dynConfig, history>>

\* mutant: the guard does not look at what validateApiKey returned
CanActivateValidated_AlwaysAdmits ==
  /\ req.pc = "validating"
  /\ kproc[GateSlot].pc = "done"
  /\ kproc' = [kproc EXCEPT ![GateSlot] = KIdle]
  /\ req' = [req EXCEPT !.pc = "client",
                        !.validated = IF kproc[GateSlot].res = TRUE THEN "true" ELSE "false",
                        !.apiKey = kproc[GateSlot].key]
  /\ UNCHANGED <<now, sessionTtl, session, metadata, users, proc, issuedAt, metaAt,
                 logoutBegun, loggedOut, apiKeys, codec, pool, faults, masking, config,
                 dynConfig, history>>

\* canActivate: validateApiKey has returned isValid
CanActivateValidated ==
  /\ req.pc = "validating"
  /\ kproc[GateSlot].pc = "done"
  /\ kproc' = [kproc EXCEPT ![GateSlot] = KIdle]
  /\ req' = IF kproc[GateSlot].res = TRUE
            THEN [req EXCEPT !.pc = "client", !.validated = "true",
                             !.apiKey = kproc[GateSlot].key]
            ELSE [Rejected(req, 401, "Invalid or missing API key")
                    EXCEPT !.validated = "false"]
  /\ UNCHANGED <<now, sessionTtl, session, metadata, users, proc, issuedAt, metaAt,
                 logoutBegun, loggedOut, apiKeys, codec, pool, faults, masking, config,
                 dynConfig, history>>

\* mutant: getApiKeyClientName has no catch block, a rejected lookup leaves the guard
CanActivateClientName_Rethrows ==
  /\ req.pc = "client"
  /\ \E ok \in Outcomes :
       req' = IF ok THEN [req EXCEPT !.pc = "intercept",
                            !.clientName = IF GetApiKey(req.apiKey).found THEN "client"
                                           ELSE "null"]
              ELSE Rejected(req, 500, "Internal server error")
  /\ UNCHANGED <<now, sessionTtl, session, metadata, users, proc, issuedAt, metaAt,
                 logoutBegun, loggedOut, apiKeys, kproc, codec, pool, faults, masking,
                 config, dynConfig, history>>

\* canActivate: request.clientName = await getApiKeyClientName(apiKey), which
\* answers null when its lookup fails; the guard returns true
CanActivateClientName ==
  /\ req.pc = "client"
  /\ \E ok \in Outcomes :
       req' = [req EXCEPT !.pc = "intercept",
                 !.clientName = IF ok /\ GetApiKey(req.apiKey).found THEN "client" ELSE "null"]
  /\ UNCHANGED <<now, sessionTtl, session, metadata, users, proc, issuedAt, metaAt,
                 logoutBegun, loggedOut, apiKeys, kproc, codec, pool, faults, masking,
                 config, dynConfig, history>>

\* a field of the body that is falsy: not there, or the empty string
Falsy(body, f) == f \notin body.has \/ body[f] = <<>>

\* mutant: the interceptor takes a body for an envelope as soon as it has a
\* ciphertext
InterceptResult_OnlyCiphertext(method, body) ==
  IF method \notin {"POST", "PUT", "PATCH"}
  THEN [pass |-> TRUE, body |-> body, decrypts |-> 0, message |-> "none"]
  ELSE IF body.kind = "none"
  THEN [pass |-> FALSE, body |-> body, decrypts |-> 0, message |-> "Missing encrypted payload"]
  ELSE IF Falsy(body, "ciphertext")
  THEN [pass |-> TRUE, body |-> body, decrypts |-> 0, message |-> "none"]
  ELSE LET d == Decrypt(codec.key, body)
           j == IF d.ok THEN JsonParse(d.text) ELSE Thrown
       IN IF j.ok
          THEN [pass |-> TRUE, body |-> Parsed(j.value), decrypts |-> 1, message |-> "none"]
          ELSE [pass |-> FALSE, body |-> body, decrypts |-> 1,
                message |-> "Invalid encrypted payload format"]

\* DecryptPayloadInterceptor.intercept on a method and a body
InterceptResult(method, body) ==
  IF method \notin {"POST", "PUT", "PATCH"}
  THEN [pass |-> TRUE, body |-> body, decrypts |-> 0, message |-> "none"]
  ELSE IF body.kind = "none"
  THEN [pass |-> FALSE, body |-> body, decrypts |-> 0, message |-> "Missing encrypted payload"]
  ELSE IF Falsy(body, "ciphertext") \/ Falsy(body, "iv") \/ Falsy(body, "authTag")
  THEN [pass |-> TRUE, body |-> body, decrypts |-> 0, message |-> "none"]
  ELSE LET d == Decrypt(codec.key, body)
           j == IF d.ok THEN JsonParse(d.text) ELSE Thrown
       IN IF j.ok
          THEN [pass |-> TRUE, body |-> Parsed(j.value), decrypts |-> 1, message |-> "none"]
          ELSE [pass |-> FALSE, body |-> body, decrypts |-> 1,
                message |-> "Invalid encrypted payload format"]

\* the interceptor runs on a request the guard has admitted
Intercept ==
  /\ req.pc = "intercept"
  /\ LET r == InterceptResult(req.method, req.body)
     IN req' = IF r.pass
               THEN [req EXCEPT !.pc = "handler", !.body = r.body, !.decrypts = @ + r.decrypts]
               ELSE [Rejected(req, 400, r.message) EXCEPT !.decrypts = @ + r.decrypts]
  /\ UNCHANGED <<now, sessionTtl, session, metadata, users, proc, issuedAt, metaAt,
                 logoutBegun, loggedOut, apiKeys, kproc, codec, pool, faults, masking,
                 config, dynConfig, history>>

\* next.handle(): the controller method, and with it the AuthService, is invoked
Handle ==
  /\ req.pc = "handler"
  /\ req' = [req EXCEPT !.pc = "done", !.handled = TRUE, !.status = 200]
  /\ UNCHANGED <<now, sessionTtl, session, metadata, users, proc, issuedAt, metaAt,
                 logoutBegun, loggedOut, apiKeys, kproc, codec, pool, faults, masking,
                 config, dynConfig, history>>

\* the response has been sent
Respond ==
  /\ req.pc = "done"
  /\ req' = NoRequest
  /\ UNCHANGED <<now, sessionTtl, session, metadata, users, proc, issuedAt, metaAt,
                 logoutBegun, loggedOut, apiKeys, kproc, codec, pool, faults, masking,
                 config, dynConfig, history>>

\* the session lifecycle: issue, verify, logout, and the passing of time
Next ==
  \/ Tick
  \/ \E p \in Procs, op \in {"login", "signup"}, e \in Emails : IssueSession(p, op, e)
  \/ \E p \in Procs : StoreSessionKey(p)
  \/ \E p \in Procs : StoreMetadataKey(p)
  \/ \E p \in Procs, t \in Tokens : StartVerify(p, t)
  \/ \E p \in Procs : VerifyGetSession(p)
  \/ \E p \in Procs : VerifyGetMetadata(p)
  \/ \E p \in Procs, t \in Tokens : StartLogout(p, t)
  \/ \E p \in Procs : DeleteSessionKey(p)
  \/ \E p \in Procs : DeleteMetadataKey(p)
  \/ \E p \in Procs : Return(p)

Spec == Init /\ [][Next]_vars

\* the identity of a session read back, while sessions are issued, expire and
\* are logged out
NextRead ==
  \/ Tick
  \/ \E p \in Procs, op \in {"login", "signup"}, e \in Emails : IssueSession(p, op, e)
  \/ \E p \in Procs : StoreSessionKey(p)
  \/ \E p \in Procs : StoreMetadataKey(p)
  \/ \E p \in Procs, t \in Tokens : StartLogout(p, t)
  \/ \E p \in Procs : DeleteSessionKey(p)
  \/ \E p \in Procs : DeleteMetadataKey(p)
  \/ \E p \in Procs, t \in Tokens : StartGetUser(p, t)
  \/ \E p \in Procs : GetUserRead(p)
  \/ \E p \in Procs : Return(p)

\* a configured lifetime, so that sessions expire
InitRead == Init /\ sessionTtl > 0

SpecRead == InitRead /\ [][NextRead]_vars

\* sessions issued under every configured expiration, and the clock
NextTtl ==
  \/ Tick
  \/ \E p \in Procs, op \in {"login", "signup"}, e \in Emails : IssueSession(p, op, e)
  \/ \E p \in Procs : StoreSessionKey(p)
  \/ \E p \in Procs : StoreMetadataKey(p)
  \/ \E p \in Procs : Return(p)

InitTtl ==
  /\ InitStores
  /\ apiKeys = [k \in Keys |-> NoRow]
  /\ config \in ConfigValues
  /\ sessionTtl = SessionTtl(config)
  /\ dynConfig = NotInjected
  /\ history = NoHistory
  /\ codec = Constructed(Unset, DefaultKeyString)
  /\ req = NoRequest
  /\ pool = Issuable
  /\ masking = NoMasking
  /\ faults = TRUE

SpecTtl == InitTtl /\ [][NextTtl]_vars

\* a client posts what ApiEncryptionHelper.encrypt(payload) returned, the
\* helper made with the key string of the service
ClientSend(payload, iv) ==
  /\ req.pc = "idle"
  /\ LET K == ServerKeyString(codec.cfg, codec.env)
         e == Encrypt(HelperKey(K), iv, JsonStringify(payload))
     IN /\ K.len >= MinKeyChars
        /\ e.ok
        /\ \E hdr \in Keys :
             req' = [NoRequest EXCEPT !.pc = "guard", !.method = "POST", !.hdr = hdr,
                                      !.received = EnvelopeBody(e), !.body = EnvelopeBody(e)]
  /\ UNCHANGED <<now, sessionTtl, session, metadata, users, proc, issuedAt, metaAt,
                 logoutBegun, loggedOut, apiKeys, kproc, codec, pool, faults, masking,
                 config, dynConfig, history>>

\* requests of the helper through the key gate and the decrypt gate, against
\* a service constructed from every configured key and environment key
NextClient ==
  \/ \E payload \in Payloads, iv \in Ivs : ClientSend(payload, iv)
  \/ CanActivate
  \/ ValidateLookup(GateSlot)
  \/ ValidateUpdateLastUsed(GateSlot)
  \/ CanActivateValidated
  \/ CanActivateClientName
  \/ Intercept
  \/ Handle
  \/ Respond

InitClient ==
  /\ InitStores
  /\ pool = Issuable
  /\ masking = NoMasking
  /\ faults = FALSE
  /\ config = Configured(Decimal(MaxTtl))
  /\ sessionTtl = SessionTtl(config)
  /\ dynConfig = NotInjected
  /\ history = NoHistory
  /\ apiKeys = [k \in Keys |->
                 IF k = 1 THEN [found |-> TRUE, isActive |-> TRUE, lastUsed |-> -1]
                 ELSE IF k = 2 THEN [found |-> TRUE, isActive |-> FALSE, lastUsed |-> -1]
                 ELSE NoRow]
  /\ codec \in {Constructed(c, e) : c \in KeyStrings \cup {Unset}, e \in KeyStrings \cup {Unset}}
  /\ req = NoRequest

SpecClient == InitClient /\ [][NextClient]_vars

\* sessions with a lifetime, verified and logged out, the statuses returned
\* for the issued token recorded
NextMonotone ==
  \/ Tick
  \/ \E p \in Procs, op \in {"login", "signup"}, e \in Emails : IssueSession(p, op, e)
  \/ \E p \in Procs : StoreSessionKey(p)
  \/ \E p \in Procs : StoreMetadataKey(p)
  \/ \E p \in Procs, t \in Issuable : StartVerify(p, t)
  \/ \E p \in Procs : VerifyGetSession(p)
  \/ \E p \in Procs : VerifyGetMetadata(p)
  \/ \E p \in Procs, t \in Issuable : StartLogout(p, t)
  \/ \E p \in Procs : DeleteSessionKey(p)
  \/ \E p \in Procs : DeleteMetadataKey(p)
  \/ \E p \in Procs : Return(p)

InitMonotone ==
  /\ InitStores
  /\ apiKeys = [k \in Keys |-> NoRow]
  /\ config \in {Configured(Decimal(n)) : n \in 1..MaxTtl}
  /\ sessionTtl = SessionTtl(config)
  /\ dynConfig = NotInjected
  /\ history = Recording
  /\ pool = Issuable
  /\ masking = NoMasking
  /\ faults = TRUE
  /\ codec = Constructed(Unset, DefaultKeyString)
  /\ req = NoRequest

SpecMonotone == InitMonotone /\ [][NextMonotone]_vars

\* the DynamicConfigService from its construction on, asked for its keys
NextDynamic ==
  \/ OnModuleInit
  \/ Initialize
  \/ \E key \in ConfigKeys : GetConfig(key)

InitDynamic ==
  /\ InitStores
  /\ apiKeys = [k \in Keys |-> NoRow]
  /\ config = Configured(Decimal(MaxTtl))
  /\ sessionTtl = SessionTtl(config)
  /\ codec = Constructed(Unset, DefaultKeyString)
  /\ req = NoRequest
  /\ pool = Issuable
  /\ masking = NoMasking
  /\ faults = TRUE
  /\ dynConfig \in {NewDynamicConfig(EnvironmentOf(e)) : e \in NodeEnvs}
  /\ history = NoHistory

SpecDynamic == InitDynamic /\ [][NextDynamic]_vars

\* sessions verified and read back while they are issued and expire
NextReaders ==
  \/ Tick
  \/ \E p \in Procs, op \in {"login", "signup"}, e \in Emails : IssueSession(p, op, e)
  \/ \E p \in Procs : StoreSessionKey(p)
  \/ \E p \in Procs : StoreMetadataKey(p)
  \/ \E p \in Procs, t \in Tokens : StartVerify(p, t)
  \/ \E p \in Procs : VerifyGetSession(p)
  \/ \E p \in Procs : VerifyGetMetadata(p)
  \/ \E p \in Procs, t \in Tokens : StartGetUser(p, t)
  \/ \E p \in Procs : GetUserRead(p)
  \/ \E p \in Procs : Return(p)

InitReaders == Init /\ sessionTtl > 0

SpecReaders == InitReaders /\ [][NextReaders]_vars

\* several sessions side by side: two tokens to draw, logins and logouts
\* interleaved, the clock standing still
NextSessions ==
  \/ \E p \in Procs, op \in {"login", "signup"}, e \in Emails : IssueSession(p, op, e)
  \/ \E p \in Procs : StoreSessionKey(p)
  \/ \E p \in Procs : StoreMetadataKey(p)
  \/ \E p \in Procs, t \in Tokens : StartLogout(p, t)
  \/ \E p \in Procs : DeleteSessionKey(p)
  \/ \E p \in Procs : DeleteMetadataKey(p)
  \/ \E p \in Procs : Return(p)

InitSessions ==
  /\ InitStores
  /\ apiKeys = [k \in Keys |-> NoRow]
  /\ config = Configured(Decimal(MaxTtl))
  /\ sessionTtl = SessionTtl(config)
  /\ dynConfig = NotInjected
  /\ history = NoHistory
  /\ codec = Constructed(Unset, DefaultKeyString)
  /\ req = NoRequest
  /\ pool = Tokens
  /\ masking = NoMasking
  /\ faults \in BOOLEAN

SpecSessions == InitSessions /\ [][NextSessions]_vars

\* the clock of the model stops at MaxTime: records are written while it still
\* covers their lifetime, so that a record with a TTL meets its expiry
ExpiresInTime == now + 2 * sessionTtl <= MaxTime

\* sessions issued and logged out while time keeps passing
NextExpiry ==
  \/ Tick
  \/ \E p \in Procs, op \in {"login", "signup"}, e \in Emails : IssueSession(p, op, e)
  \/ \E p \in Procs : ExpiresInTime /\ StoreSessionKey(p)
  \/ \E p \in Procs : ExpiresInTime /\ StoreMetadataKey(p)
  \/ \E p \in Procs, t \in Tokens : StartLogout(p, t)
  \/ \E p \in Procs : DeleteSessionKey(p)
  \/ \E p \in Procs : DeleteMetadataKey(p)
  \/ \E p \in Procs : Return(p)

InitExpiry == Init /\ faults = TRUE

\* a request that has been started runs on to its response
Continue ==
  \E p \in Procs :
    \/ ExpiresInTime /\ StoreSessionKey(p)
    \/ ExpiresInTime /\ StoreMetadataKey(p)
    \/ DeleteSessionKey(p)
    \/ DeleteMetadataKey(p)
    \/ Return(p)

\* the store's clock never stops before MaxTime and started requests are
\* served; no request is obliged to arrive
SpecExpiry == InitExpiry /\ [][NextExpiry]_vars /\ WF_vars(Tick) /\ WF_vars(Continue)

\* login and signup step by step, against the identity store
NextAuth ==
  \/ \E p \in Procs, e \in Emails \cup {Empty}, pw \in Secrets \cup {Empty} :
       StartLogin(p, e, pw)
  \/ \E p \in Procs : LoginFindUser(p)
  \/ \E p \in Procs : LoginCompare(p)
  \/ \E p \in Procs, e \in Emails \cup {Empty}, pw \in Secrets \cup {Empty} :
       StartSignup(p, e, pw)
  \/ \E p \in Procs : SignupFindUser(p)
  \/ \E p \in Procs : SignupHash(p)
  \/ \E p \in Procs : SignupCreate(p)
  \/ \E p \in Procs : StoreSessionKey(p)
  \/ \E p \in Procs : StoreMetadataKey(p)
  \/ \E p \in Procs : Return(p)

\* the identity store empty, or holding one user, and two tokens to draw
InitAuth ==
  /\ InitStores
  /\ apiKeys = [k \in Keys |-> NoRow]
  /\ config = Configured(Decimal(MaxTtl))
  /\ sessionTtl = SessionTtl(config)
  /\ dynConfig = NotInjected
  /\ history = NoHistory
  /\ codec = Constructed(Unset, DefaultKeyString)
  /\ req = NoRequest
  /\ pool = Tokens
  /\ masking = NoMasking
  /\ faults \in BOOLEAN

SpecAuth == InitAuth /\ [][NextAuth]_vars

\* access keys: creation, deactivation and validation (none of them reads the
\* clock; updateLastUsed writes it)
NextKey ==
  \/ \E k \in Keys : CreateApiKey(k)
  \/ \E k \in Keys : Deactivate(k)
  \/ \E p \in Procs, k \in Keys : StartValidate(p, k)
  \/ \E p \in Procs : ValidateLookup(p)
  \/ \E p \in Procs : ValidateUpdateLastUsed(p)
  \/ \E p \in Procs : ValidateReturn(p)

\* no session is issued here: one lifetime stands for all
InitKey == Init /\ sessionTtl = MaxTtl /\ faults

SpecKey == InitKey /\ [][NextKey]_vars

\* the construction of the EncryptionService, for every configured key and
\* every environment key
NextConstruct == Constructor

InitConstruct ==
  /\ InitStores
  /\ pool = Issuable
  /\ masking = NoMasking
  /\ faults = TRUE
  /\ apiKeys = [k \in Keys |-> NoRow]
  /\ req = NoRequest
  /\ config = Configured(Decimal(MaxTtl))
  /\ sessionTtl = SessionTtl(config)
  /\ dynConfig = NotInjected
  /\ history = NoHistory
  /\ codec \in {[Constructed(c, e) EXCEPT !.pc = "new", !.key = NoKey] :
                  c \in KeyStrings \cup {Unset}, e \in KeyStrings \cup {Unset}}

SpecConstruct == InitConstruct /\ [][NextConstruct]_vars

\* the service constructed: encrypt, a change to the envelope, decrypt
NextCodec ==
  \/ \E data \in Texts, iv \in Ivs : EncryptCall(data, iv)
  \/ \E f \in EnvelopeFields : ChangeEnvelope(f)
  \/ DecryptCall

\* a key of 64 hex digits, the 32 characters of the defaults, and a short
\* configured key beside them
InitCodec ==
  /\ InitStores
  /\ pool = Issuable
  /\ masking = NoMasking
  /\ faults = TRUE
  /\ apiKeys = [k \in Keys |-> NoRow]
  /\ req = NoRequest
  /\ config = Configured(Decimal(MaxTtl))
  /\ sessionTtl = SessionTtl(config)
  /\ dynConfig = NotInjected
  /\ history = NoHistory
  /\ codec \in {Constructed(Unset, [DefaultKeyString EXCEPT !.len = 64, !.hexLen = 64]),
                 Constructed(Unset, DefaultKeyString),
                 Constructed([DefaultKeyString EXCEPT !.len = 31, !.hexLen = 31],
                             DefaultKeyString)}

SpecCodec == InitCodec /\ [][NextCodec]_vars

\* a request on its way through the key gate and the decrypt gate
NextGate ==
  \/ Arrive
  \/ CanActivate
  \/ \E p \in Procs : ValidateLookup(p)
  \/ \E p \in Procs : ValidateUpdateLastUsed(p)
  \/ CanActivateValidated
  \/ CanActivateClientName
  \/ Intercept
  \/ Handle
  \/ Respond

\* the access keys as earlier requests left them: the first created and active,
\* the second created and deactivated, any other never created
InitGate ==
  /\ InitStores
  /\ pool = Issuable
  /\ masking = NoMasking
  /\ faults = TRUE
  /\ config = Configured(Decimal(MaxTtl))
  /\ sessionTtl = SessionTtl(config)
  /\ dynConfig = NotInjected
  /\ history = NoHistory
  /\ apiKeys = [k \in Keys |->
                 IF k = 1 THEN [found |-> TRUE, isActive |-> TRUE, lastUsed |-> -1]
                 ELSE IF k = 2 THEN [found |-> TRUE, isActive |-> FALSE, lastUsed |-> -1]
                 ELSE NoRow]
  /\ codec = Constructed(Unset, DefaultKeyString)
  /\ req = NoRequest

SpecGate == InitGate /\ [][NextGate]_vars

\* ------------------------------------ one request through gates and AuthService
HandlerSlot == "r1"    \* the slot the controller's AuthService call runs in

\* a POST to an endpoint of the LoginController arrives, its key in the header
ArrivePost ==
  /\ Arrive
  /\ req'.method = "POST"
  /\ req'.qry = NoApiKey
  /\ req'.received \in {NoBody, PlainBody} \cup {EnvelopeBody(e) : e \in ClientEnvelopes}

\* next.handle(): the controller method calls the AuthService with what it
\* finds in the body
Dispatch ==
  /\ req.pc = "handler"
  /\ \/ \E e \in Emails \cup {Empty}, pw \in Secrets \cup {Empty} :
          StartLogin(HandlerSlot, e, pw)
     \/ \E e \in Emails \cup {Empty}, pw \in Secrets \cup {Empty} :
          StartSignup(HandlerSlot, e, pw)
     \/ \E t \in Tokens : StartVerify(HandlerSlot, t)
     \/ \E t \in Tokens : StartLogout(HandlerSlot, t)
     \/ \E t \in Tokens : StartGetUser(HandlerSlot, t)

\* the AuthService call has returned: the controller answers
Answer ==
  /\ proc[HandlerSlot].pc = "done"
  /\ Handle

\* the request is over for the AuthService
Finish ==
  /\ req.pc = "done"
  /\ Return(HandlerSlot)

\* the response of the request goes out
RespondServed ==
  /\ proc[HandlerSlot].pc = "idle"
  /\ Respond

NextServe ==
  \/ ArrivePost
  \/ CanActivate
  \/ ValidateLookup(GateSlot)
  \/ ValidateUpdateLastUsed(GateSlot)
  \/ CanActivateValidated
  \/ CanActivateClientName
  \/ Intercept
  \/ Dispatch
  \/ LoginFindUser(HandlerSlot)
  \/ LoginCompare(HandlerSlot)
  \/ SignupFindUser(HandlerSlot)
  \/ SignupHash(HandlerSlot)
  \/ SignupCreate(HandlerSlot)
  \/ StoreSessionKey(HandlerSlot)
  \/ StoreMetadataKey(HandlerSlot)
  \/ VerifyGetSession(HandlerSlot)
  \/ VerifyGetMetadata(HandlerSlot)
  \/ DeleteSessionKey(HandlerSlot)
  \/ DeleteMetadataKey(HandlerSlot)
  \/ GetUserRead(HandlerSlot)
  \/ Answer
  \/ Finish
  \/ RespondServed

\* one active and one deactivated access key, an empty identity store, and
\* stores that can fail
InitServe ==
  /\ InitStores
  /\ pool = Tokens
  /\ masking = NoMasking
  /\ faults = TRUE
  /\ config = Configured(Decimal(MaxTtl))
  /\ sessionTtl = SessionTtl(config)
  /\ dynConfig = NotInjected
  /\ history = NoHistory
  /\ apiKeys = [k \in Keys |->
                 IF k = 1 THEN [found |-> TRUE, isActive |-> TRUE, lastUsed |-> -1]
                 ELSE IF k = 2 THEN [found |-> TRUE, isActive |-> FALSE, lastUsed |-> -1]
                 ELSE NoRow]
  /\ codec = Constructed(Unset, DefaultKeyString)
  /\ req = NoRequest

SpecServe == InitServe /\ [][NextServe]_vars

\* maskApiKey on every key text
NextMask == MaskCall

InitMask ==
  /\ InitStores
  /\ apiKeys = [k \in Keys |-> NoRow]
  /\ config = Configured(Decimal(MaxTtl))
  /\ sessionTtl = SessionTtl(config)
  /\ dynConfig = NotInjected
  /\ history = NoHistory
  /\ codec = Constructed(Unset, DefaultKeyString)
  /\ req = NoRequest
  /\ pool = Issuable
  /\ faults = TRUE
  /\ masking \in {[NoMasking EXCEPT !.pc = "called", !.apiKey = k] : k \in KeyTexts}

SpecMask == InitMask /\ [][NextMask]_vars

\* ===================================================================== claims
VerifyDone(p) == proc[p].pc = "done" /\ proc[p].op = "verify"
Checked(p)    == VerifyDone(p) /\ ~proc[p].failed   \* checkSessionStatus returned
Valid    == [valid |-> TRUE,  expired |-> FALSE]
Expired  == [valid |-> FALSE, expired |-> TRUE]
Invalid  == [valid |-> FALSE, expired |-> FALSE]

\* C1: what checkSessionStatus returns is decided by the two records as it read
\* them: valid exactly when session:<token> was there, expired exactly when it
\* was not and session:metadata:<token> was, invalid exactly when neither was;
\* never valid and expired together.
C1_StatusFollowsRecords ==
  \A p \in Procs : Checked(p) =>
    /\ (proc[p].status = Valid)   <=> proc[p].sawSession
    /\ (proc[p].status = Expired) <=> (~proc[p].sawSession /\ proc[p].sawMeta)
    /\ (proc[p].status = Invalid) <=> (~proc[p].sawSession /\ ~proc[p].sawMeta)
    /\ ~(proc[p].status.valid /\ proc[p].status.expired)

\* a check that found both records beside a check that found only the metadata
C1_Witness ==
  \E p, q \in Procs :
    /\ Checked(p) /\ proc[p].sawSession /\ proc[p].sawMeta
    /\ Checked(q) /\ ~proc[q].sawSession /\ proc[q].sawMeta

\* C2: a check invoked after storeSession(T, data, ttl) completed with ttl > 0,
\* and finished before the session TTL has run out and with no deleteSession(T)
\* invoked, returns valid and not expired.
C2_ValidWhileLive ==
  \A p \in Procs :
    (Checked(p) /\ sessionTtl > 0 /\ proc[p].phase = "live" /\ Phase(proc[p].tok) = "live")
      => proc[p].status = Valid

\* such a check, made at a later instant than the one the session was stored at
C2_Witness ==
  \E p \in Procs :
    /\ Checked(p) /\ sessionTtl > 0 /\ proc[p].phase = "live"
    /\ Phase(proc[p].tok) = "live" /\ now > metaAt[proc[p].tok]

\* C3: for a token stored with ttl > 0 and never logged out, a check made wholly
\* after the session TTL has run out and before the metadata TTL (2 x ttl) has,
\* returns expired and not valid, and verifySession answers SESSION_EXPIRED.
C3_ExpiredWhileLapsed ==
  \A p \in Procs :
    (Checked(p) /\ sessionTtl > 0 /\ proc[p].phase = "lapsed"
       /\ Phase(proc[p].tok) = "lapsed")
      => /\ proc[p].status = Expired
         /\ proc[p].res = [valid |-> FALSE, expired |-> TRUE, code |-> "SESSION_EXPIRED"]

C3_Witness ==
  \E p \in Procs :
    /\ Checked(p) /\ sessionTtl > 0 /\ proc[p].phase = "lapsed"
    /\ Phase(proc[p].tok) = "lapsed"

\* C4: a token storeSession was never called for has neither record, and a check
\* of it returns not valid and not expired, whatever was done with other tokens.
C4_NeverIssuedIsInvalid ==
  \A t \in Tokens : issuedAt[t] < 0 =>
    /\ ~session[t].set /\ ~metadata[t].set
    /\ \A p \in Procs : (Checked(p) /\ proc[p].tok = t) => proc[p].status = Invalid

\* a check of a token never issued, after another token was issued and logged out
C4_Witness ==
  \E p \in Procs, t, u \in Tokens :
    /\ t # u /\ issuedAt[t] < 0 /\ Checked(p) /\ proc[p].tok = t
    /\ metaAt[u] >= 0 /\ logoutBegun[u]

\* C5: verifySession of a token a successful login or signup returned answers
\* valid = true while the session lives; a verifySession invoked after a logout
\* of it completed with both deletes done answers valid = false with
\* SESSION_INVALID, never SESSION_EXPIRED.
C5_ValidThenInvalidAfterLogout ==
  \A p \in Procs : Checked(p) =>
    /\ (proc[p].phase = "live" /\ Phase(proc[p].tok) = "live") => proc[p].res.valid
    /\ proc[p].phase = "loggedout" =>
         proc[p].res = [valid |-> FALSE, expired |-> FALSE, code |-> "SESSION_INVALID"]

\* a verification after logout, at an instant the metadata TTL has not run out
C5_Witness ==
  \E p \in Procs :
    /\ Checked(p) /\ proc[p].phase = "loggedout" /\ sessionTtl > 0
    /\ now < metaAt[proc[p].tok] + 2 * sessionTtl

\* C6: verifySession ends with one of four outcomes and never throws:
\* (true, false, null) when the store reports valid, (false, true,
\* SESSION_EXPIRED) when it reports expired, (false, false, SESSION_INVALID) when
\* it reports neither, (false, false, DATABASE_ERROR) when a store read failed.
C6_FourOutcomes ==
  \A p \in Procs : VerifyDone(p) =>
    /\ proc[p].res \in [valid : BOOLEAN, expired : BOOLEAN,
                        code : {"null", "SESSION_EXPIRED", "SESSION_INVALID", "DATABASE_ERROR"}]
    /\ proc[p].failed =>
         proc[p].res = [valid |-> FALSE, expired |-> FALSE, code |-> "DATABASE_ERROR"]
    /\ (~proc[p].failed /\ proc[p].status.valid) =>
         proc[p].res = [valid |-> TRUE, expired |-> FALSE, code |-> "null"]
    /\ (~proc[p].failed /\ ~proc[p].status.valid /\ proc[p].status.expired) =>
         proc[p].res = [valid |-> FALSE, expired |-> TRUE, code |-> "SESSION_EXPIRED"]
    /\ (~proc[p].failed /\ ~proc[p].status.valid /\ ~proc[p].status.expired) =>
         proc[p].res = [valid |-> FALSE, expired |-> FALSE, code |-> "SESSION_INVALID"]

\* a verification whose store read failed beside one that found the session expired
C6_Witness ==
  \E p, q \in Procs :
    /\ VerifyDone(p) /\ proc[p].failed
    /\ Checked(q) /\ proc[q].status = Expired

\* C7 (as claimed): a verifySession invoked on a VALID session and finished
\* before the session TTL has run out, with a logout of the same token running
\* beside it, never answers SESSION_EXPIRED.
C7_RaceNeverExpired ==
  \A p \in Procs :
    (VerifyDone(p) /\ proc[p].phase = "live"
       /\ (sessionTtl = 0 \/ now < issuedAt[proc[p].tok] + sessionTtl))
      => proc[p].res.code # "SESSION_EXPIRED"

ValidateDone(p) == kproc[p].pc = "done"

\* C8 (as claimed): a validation whose lookup found an active record returns
\* true, also when recording the last-used timestamp failed.
C8_UsageFailureKeepsTrue ==
  \A p \in Procs :
    (ValidateDone(p) /\ kproc[p].keyData.found /\ kproc[p].keyData.isActive)
      => kproc[p].res = TRUE

\* C9: validateApiKey always ends with true or false (it never throws); false
\* whenever the lookup failed, found no record, or found the active flag false,
\* and whenever the flag was already cleared when it was invoked; true only if
\* the lookup found a record with the active flag set.
C9_FailClosed ==
  \A p \in Procs : ValidateDone(p) =>
    /\ kproc[p].res \in BOOLEAN
    /\ (kproc[p].lookupFailed \/ ~kproc[p].keyData.found \/ ~kproc[p].keyData.isActive)
         => kproc[p].res = FALSE
    /\ kproc[p].clearedAtStart => kproc[p].res = FALSE
    /\ kproc[p].res = TRUE =>
         /\ ~kproc[p].lookupFailed /\ kproc[p].keyData.found /\ kproc[p].keyData.isActive
         /\ apiKeys[kproc[p].key].found

\* a validation refused for a cleared flag beside one refused for a failed lookup
C9_Witness ==
  \E p, q \in Procs :
    /\ ValidateDone(p) /\ kproc[p].keyData.found /\ ~kproc[p].keyData.isActive
    /\ ValidateDone(q) /\ kproc[q].lookupFailed /\ apiKeys[kproc[q].key].isActive

Intercepted == req.validated = "true" /\ req.pc \in {"handler", "done"}
Mutating == {"POST", "PUT", "PATCH"}
KeyGateRejection ==
  /\ req.pc = "done" /\ req.status = 401 /\ req.message = "Invalid or missing API key"
  /\ req.decrypts = 0 /\ ~req.handled

\* C11: a request with no key in the X-API-Key header and none in the api_key
\* parameter, and a request for whose key validateApiKey returned false, ends
\* with the 401 error 'Invalid or missing API key', with no decrypt call and no
\* handler invoked; the decrypt gate and the handler run only for a request the
\* key gate has admitted.
C11_KeyGateFirst ==
  /\ (req.pc \notin {"idle", "guard"} /\ req.hdr = NoApiKey /\ req.qry = NoApiKey)
       => KeyGateRejection
  /\ req.validated = "false" => KeyGateRejection
  /\ (req.pc \in {"intercept", "handler"} \/ req.decrypts > 0 \/ req.handled)
       => (req.validated = "true" /\ GetApiKey(req.apiKey).found)

\* a POST carrying an envelope the service could decrypt, refused at the key gate
\* because validateApiKey returned false
C11_Witness ==
  /\ req.pc = "done" /\ req.validated = "false" /\ req.method = "POST"
  /\ req.received = EnvelopeBody(Encrypt(codec.key, <<10>>, <<"3">>))

\* C12 (as claimed): for a POST, PUT or PATCH whose body has the three fields
\* ciphertext, iv and authTag, the decrypt gate makes a decrypt call; on success
\* the body becomes the parsed plaintext, and on any failure the request is
\* rejected with 400 'Invalid encrypted payload format' and no handler runs.
C12_EnvelopeAlwaysDecrypted ==
  (Intercepted /\ req.method \in Mutating /\ req.received.kind = "object"
     /\ req.received.has = EnvelopeFields)
    => /\ req.decrypts = 1
       /\ LET d == Decrypt(codec.key, req.received)
              j == IF d.ok THEN JsonParse(d.text) ELSE Thrown
          IN IF j.ok THEN req.body = Parsed(j.value) /\ req.status # 400
             ELSE /\ req.pc = "done" /\ req.status = 400 /\ ~req.handled
                  /\ req.message = "Invalid encrypted payload format"

\* a body lacks a field: it is not among the fields the body has
Lacks(body) == \E f \in EnvelopeFields : f \notin body.has
PassedOn == req.pc = "handler" \/ req.handled

C15_ChangedEnvelopeFails ==
  (codec.pc = "opened" /\ codec.changed # "none") => ~codec.res.ok

\* the key string initializeKeys ends up reading: the configured one, or the
\* environment's on the fallback path
KeySource ==
  LET envKey == IF codec.env = Unset THEN EmptyString ELSE codec.env
      keyStr == IF codec.cfg # Unset THEN codec.cfg ELSE envKey
  IN IF keyStr.len < MinKeyChars THEN envKey ELSE keyStr

\* C16 (as claimed): after initializeKeys the key has exactly 32 bytes, whatever
\* the configured key and the ENCRYPTION_KEY variable are: the hex decoding of
\* the key string when that has 32 bytes, else the string padded with '0' and
\* cut to 32 characters, on the normal path and on the fallback path alike.
C16_KeyHas32Bytes ==
  codec.pc = "ready" =>
    /\ codec.key.len = KeyBytes
    /\ codec.key = IF HexBytes(KeySource) = KeyBytes THEN HexKey(KeySource)
                   ELSE RawKey(KeySource)

\* C17: login checks in a fixed order and stops at the first failure. An empty
\* email or password ends it with MISSING_INFORMATION before any identity
\* lookup; an email the lookup does not find ends it with EMAIL_NOT_FOUND
\* before any password comparison; a password that does not match ends it with
\* INCORRECT_PASSWORD, 'Password is incorrect'; a token is drawn and a session
\* stored only after all three checks have passed, and success is answered
\* with that token once both records are written. Every failure response has
\* success = false and no sessionToken.
C17_LoginCheckOrder ==
  \A p \in Procs : proc[p].op = "login" =>
    LET r == proc[p] IN
    /\ r.lookups <= 1 /\ r.compares <= 1
    /\ (r.email = Empty \/ r.password = Empty) =>
         /\ r.pc = "done" /\ r.res = CreateErrorResponse("MISSING_INFORMATION")
         /\ r.lookups = 0 /\ r.compares = 0
    /\ (r.lookups = 1 /\ ~r.failed /\ ~r.found) =>
         /\ r.pc = "done" /\ r.res = CreateErrorResponse("EMAIL_NOT_FOUND")
         /\ r.compares = 0
    /\ r.compares = 1 => r.lookups = 1 /\ r.found
    /\ (r.compares = 1 /\ ~r.failed /\ ~Compare(r.password, r.hash)) =>
         /\ r.pc = "done" /\ r.res = CreateErrorResponse("INCORRECT_PASSWORD")
         /\ r.res.message = "Password is incorrect"
    /\ r.tok # NoToken =>
         /\ r.email # Empty /\ r.password # Empty
         /\ r.lookups = 1 /\ r.found
         /\ r.compares = 1 /\ Compare(r.password, r.hash)
    /\ r.pc = "done" =>
         IF r.res.success
         THEN /\ r.tok # NoToken /\ r.res.sessionToken = r.tok
              /\ issuedAt[r.tok] >= 0 /\ metaAt[r.tok] >= 0
         ELSE r.res.sessionToken = NoToken

\* a login refused for its password beside one that succeeded
C17_Witness ==
  \E p, q \in Procs :
    /\ proc[p].op = "login" /\ proc[p].pc = "done"
    /\ proc[p].res = CreateErrorResponse("INCORRECT_PASSWORD")
    /\ proc[q].op = "login" /\ proc[q].pc = "done" /\ proc[q].res.success

\* the hashes of the User nodes with email e
HashesOf(e) == {users[e][i] : i \in 1..Len(users[e])}

\* C18 (as claimed): a signup whose lookup finds an identity with its email
\* answers EMAIL_ALREADY_EXISTS and creates nothing; any other signup creates
\* the identity with the hash of its password and answers success with a
\* stored session, as login does. A login invoked after signup(email, p) has
\* answered success succeeds with the password p and is refused
\* INCORRECT_PASSWORD with any other, and a signup invoked after it is refused
\* EMAIL_ALREADY_EXISTS (calls in which a store fails set aside).
C18_SignupThenLogin ==
  \A p \in Procs :
    LET r == proc[p] IN
    /\ r.op = "signup" =>
         /\ (r.lookups = 1 /\ ~r.failed /\ r.found) =>
              /\ r.pc = "done" /\ r.res = CreateErrorResponse("EMAIL_ALREADY_EXISTS")
              /\ ~r.created
         /\ r.created => Hash(r.password) \in HashesOf(r.email) /\ r.tok # NoToken
         /\ (r.pc = "done" /\ r.lookups = 1 /\ ~r.failed /\ ~r.found) =>
              /\ r.created /\ r.res.success /\ r.res.sessionToken = r.tok
              /\ issuedAt[r.tok] >= 0 /\ metaAt[r.tok] >= 0
         /\ (r.pc = "done" /\ ~r.failed /\ r.after # {}) =>
              r.res = CreateErrorResponse("EMAIL_ALREADY_EXISTS")
    /\ (r.op = "login" /\ r.pc = "done" /\ ~r.failed) =>
         \A s \in r.after :
           IF r.password = s THEN r.res.success
           ELSE r.res = CreateErrorResponse("INCORRECT_PASSWORD")

\* C19: logout never throws to its caller: whether the session exists, is
\* already absent, or one or both deletes fail, the endpoint answers 'Logged
\* out successfully'. Logout is idempotent: a logout of a token that an
\* earlier logout has already cleared, or that never had a session, finds both
\* records absent and leaves them absent, as the first one left them.
C19_LogoutNeverThrows ==
  \A p \in Procs : proc[p].op = "logout" =>
    LET r == proc[p] IN
    /\ r.pc \in {"d_del1", "d_del2", "done"}
    /\ r.pc = "done" => r.res = LogoutResponse
    /\ (r.phase = "loggedout" \/ issuedAt[r.tok] < 0) =>
         ~session[r.tok].set /\ ~metadata[r.tok].set

\* a second logout of a cleared token has answered, beside a logout whose
\* deletes failed
C19_Witness ==
  \E p, q \in Procs :
    /\ proc[p].op = "logout" /\ proc[p].pc = "done" /\ proc[p].phase = "loggedout"
    /\ proc[q].op = "logout" /\ proc[q].pc = "done" /\ proc[q].failed

\* C20 (as claimed): in a run in which no store call fails, whatever the
\* interleaving of storeSession, expiry, checkSessionStatus and
\* deleteSession, no token ever has its session record present and its
\* metadata record absent.
C20_PrimaryImpliesMetadata ==
  ~faults => \A t \in Tokens : session[t].set => metadata[t].set

GetUserDone(p) == proc[p].pc = "done" /\ proc[p].op = "getuser"

\* C29: getUserFromSession never throws and reads the session record only. It
\* answers null when its read fails, and null for a token whose session has
\* expired (metadata still there), was logged out, or was never issued; it
\* answers the identity the session was stored for when it found the record,
\* as it does for every session that is still live.
C29_IdentityFromPrimaryOnly ==
  \A p \in Procs : GetUserDone(p) =>
    LET r == proc[p] IN
    /\ ~r.sawMeta
    /\ r.failed => r.res = NullUser
    /\ (r.phase \in {"lapsed", "loggedout"} \/ issuedAt[r.tok] < 0) => r.res = NullUser
    /\ r.res # NullUser =>
         /\ r.sawSession /\ issuedAt[r.tok] >= 0
         /\ r.res = [found |-> TRUE, email |-> "u@x.com"]
    /\ (~r.failed /\ r.phase = "live" /\ Phase(r.tok) = "live") => r.res.found

\* null answered for an expired session whose metadata record is still there,
\* beside an identity answered for a live one
C29_Witness ==
  \E p, q \in Procs :
    /\ GetUserDone(p) /\ proc[p].phase = "lapsed" /\ ~proc[p].failed
    /\ metadata[proc[p].tok].set /\ proc[p].res = NullUser
    /\ GetUserDone(q) /\ proc[q].res.found

\* what each operation of the AuthService answers when a collaborator has thrown
CaughtAnswer(op) ==
  CASE op \in {"login", "signup"} -> CreateErrorResponse("DATABASE_ERROR")
    [] op = "verify"  -> VerifySessionCaught
    [] op = "logout"  -> LogoutResponse
    [] op = "getuser" -> NullUser

\* C21: no exception of a collaborator reaches the transport layer. An
\* AuthService call in which a store, the identity collaborator or the hasher
\* threw still returns: DATABASE_ERROR with success = false from login and
\* signup, the caught outcome from verifySession, nothing from logout, null
\* from getUserFromSession. A request ends in the key gate only with 401
\* 'Invalid or missing API key', in the decrypt gate only with one of its two
\* 400 rejections, and otherwise with the answer of its handler.
C21_NothingPropagates ==
  LET r == proc[HandlerSlot] IN
  /\ (r.pc = "done" /\ r.failed) => r.res = CaughtAnswer(r.op)
  /\ kproc[GateSlot].pc = "done" => kproc[GateSlot].res \in BOOLEAN
  /\ req.validated = "false" => req.pc = "done" /\ req.status = 401
  /\ req.pc = "done" =>
       \/ /\ req.status = 401 /\ req.message = "Invalid or missing API key"
          /\ req.decrypts = 0 /\ ~req.handled
       \/ /\ req.status = 400 /\ ~req.handled /\ req.validated = "true"
          /\ req.message \in {"Missing encrypted payload", "Invalid encrypted payload format"}
       \/ /\ req.status = 200 /\ req.handled /\ req.validated = "true"
          /\ r.pc \in {"done", "idle"}

\* a request answered by its handler although the client-name lookup and a
\* store call of its login both threw
C21_Witness ==
  /\ req.pc = "done" /\ req.status = 200 /\ req.clientName = "null"
  /\ proc[HandlerSlot].pc = "done" /\ proc[HandlerSlot].op = "login"
  /\ proc[HandlerSlot].failed /\ proc[HandlerSlot].lookups = 1
  /\ proc[HandlerSlot].compares = 1 /\ proc[HandlerSlot].tok # NoToken

\* C22 (as claimed): every failed login or signup response carries, beside
\* success = false, the error code of the failure that occurred.
C22_FailureCarriesCode ==
  \A p \in Procs :
    (proc[p].pc = "done" /\ proc[p].op \in {"login", "signup"} /\ ~proc[p].res.success) =>
      /\ proc[p].res.code \in ErrorCodes
      /\ ERROR_CODE_MESSAGES[proc[p].res.code] = proc[p].res.message

\* C23: maskApiKey(k) has the length of k for every k. For more than 8
\* characters it keeps the first 4 and the last 4 of k and puts '*' at each
\* of the length - 8 places between; for 8 or fewer every character is '*'.
C23_MaskKeepsLength ==
  masking.pc = "returned" =>
    LET k == masking.apiKey
        m == masking.out
    IN /\ Len(m) = Len(k)
       /\ \A i \in 1..Len(k) :
            m[i] = IF Len(k) > 8 /\ (i <= 4 \/ i > Len(k) - 4) THEN k[i] ELSE "*"

\* a key of more than 9 characters masked: its ends kept, its middle starred
C23_Witness ==
  /\ masking.pc = "returned" /\ Len(masking.apiKey) > 9
  /\ masking.out[1] = "a" /\ masking.out[5] = "*" /\ masking.out[Len(masking.out)] = "7"

\* C24 (as claimed): a verification whose read of the session record found it
\* present answers valid = true with no code, whatever becomes of the metadata
\* record and of its read.
C24_PrimaryAloneDecides ==
  \A p \in Procs :
    (VerifyDone(p) /\ proc[p].sawSession) =>
      proc[p].res = [valid |-> TRUE, expired |-> FALSE, code |-> "null"]

LogoutOf(p) == proc[p].op = "logout"

\* C25: deleteSession issues both deletes in every execution. Whatever the
\* first delete did, the second is issued after it; a delete that did not
\* fail has removed its record, also when the other one failed.
C25_BothDeletesIssued ==
  /\ [](\A p \in Procs : (LogoutOf(p) /\ proc[p].pc = "done") =>
          /\ "session" \in proc[p].deleted => ~session[proc[p].tok].set
          /\ "metadata" \in proc[p].deleted => ~metadata[proc[p].tok].set
          /\ proc[p].failed <=> proc[p].deleted # {"session", "metadata"})
  /\ [][\A p \in Procs : (proc[p].pc = "d_del1" /\ proc'[p].pc # "d_del1") =>
                           proc'[p].pc = "d_del2"]_vars

\* the first delete failed and the second has removed the metadata record
C25_Witness ==
  \E p \in Procs :
    /\ LogoutOf(p) /\ proc[p].pc = "done" /\ proc[p].deleted = {"metadata"}
    /\ session[proc[p].tok].set /\ metaAt[proc[p].tok] >= 0

\* C26: with ttl > 0 storeSession writes the session record (TTL ttl) before
\* the metadata record (TTL 2 * ttl): while the second write is pending the
\* first has been made, each record that is present expires ttl (2 * ttl)
\* after its write, and once both are written the metadata record never
\* expires before the session record.
C26_MetadataOutlivesSession ==
  sessionTtl > 0 =>
    /\ \A p \in Procs : proc[p].pc = "s_set2" =>
         issuedAt[proc[p].tok] >= 0 /\ metaAt[proc[p].tok] < 0
    /\ \A t \in Tokens :
         /\ session[t].set => session[t].exp = issuedAt[t] + sessionTtl
         /\ metadata[t].set => metadata[t].exp = metaAt[t] + 2 * sessionTtl
         /\ metaAt[t] >= 0 =>
              /\ 0 <= issuedAt[t] /\ issuedAt[t] <= metaAt[t]
              /\ issuedAt[t] + sessionTtl <= metaAt[t] + 2 * sessionTtl
              /\ (session[t].set /\ metadata[t].set) => session[t].exp <= metadata[t].exp

\* both writes have completed, the second at a later instant than the first,
\* and both records are still there
C26_Witness ==
  /\ sessionTtl > 0
  /\ \E t \in Tokens : /\ issuedAt[t] >= 0 /\ metaAt[t] > issuedAt[t]
                       /\ session[t].set /\ metadata[t].set
                       /\ session[t].exp < metadata[t].exp

\* C28: every session record that login or signup stored has a positive,
\* finite lifetime, whatever expiration is configured, and the default
\* lifetime when none is configured.
C28_StoredWithConfiguredTtl ==
  \A t \in Tokens :
    session[t].set =>
      /\ session[t].exp # NoExpiry
      /\ session[t].exp > issuedAt[t]
      /\ ~config.defined => session[t].exp = issuedAt[t] + MaxTtl

\* C27: every session record or metadata record that has been written is
\* eventually followed by a state in which both records of its token are
\* absent, with no step required but the passing of time.
C27_EventuallyInvalid ==
  \A t \in Tokens :
    (session[t].set \/ metadata[t].set) ~> (~session[t].set /\ ~metadata[t].set)

\* the request in slot p works on token t and takes the step
StepOn(p, t) == proc[p].tok = t /\ proc'[p] # proc[p]

\* C30: a record of a token is created only by a step of the login or signup
\* that generated the token, and removed only by a step of a logout of that
\* token; two logins in flight hold different tokens; and every session handed
\* out stays VALID, with both its records, as long as no logout of its own
\* token has begun, whatever happens to the sessions of other tokens.
C30_SessionsAreIndependent ==
  /\ [](\A p, q \in Procs :
          (p # q /\ proc[p].op \in {"login", "signup"} /\ proc[q].op \in {"login", "signup"})
            => proc[p].tok # proc[q].tok)
  /\ [](\A t \in returned : ~logoutBegun[t] => session[t].set /\ metadata[t].set)
  /\ [][\A t \in Tokens :
          /\ (session'[t] # session[t] \/ metadata'[t] # metadata[t]) =>
               \E p \in Procs : StepOn(p, t)
          /\ ((~session[t].set /\ session'[t].set) \/ (~metadata[t].set /\ metadata'[t].set)) =>
               \E p \in Procs : StepOn(p, t) /\ proc[p].op \in {"login", "signup"}
          /\ ((session[t].set /\ ~session'[t].set) \/ (metadata[t].set /\ ~metadata'[t].set)) =>
               \E p \in Procs : StepOn(p, t) /\ proc[p].op = "logout"]_vars

\* two sessions of one identity were VALID side by side; one has been logged
\* out and the other still has both its records
C30_Witness ==
  \E t, u \in Tokens :
    /\ t # u /\ returned = {t, u} /\ loggedOut[t] /\ ~logoutBegun[u]
    /\ ~session[t].set /\ ~metadata[t].set
    /\ session[u].set /\ metadata[u].set /\ session[u].email \in Emails

\* the request in slot p is a verifySession or a getUserFromSession and takes
\* the step
ReaderStep(p) ==
  /\ proc'[p] # proc[p]
  /\ proc[p].op \in {"verify", "getuser"} \/ proc'[p].op \in {"verify", "getuser"}

\* C31: no step of verifySession or getUserFromSession changes a record of
\* the session store, and every record that is present still expires at the
\* instant fixed when storeSession wrote it, however often it has been read.
C31_ReadersLeaveStoreUnchanged ==
  /\ [](\A t \in Tokens :
          /\ session[t].set => session[t].exp = issuedAt[t] + sessionTtl
          /\ metadata[t].set => metadata[t].exp = metaAt[t] + 2 * sessionTtl)
  /\ [][\A p \in Procs : ReaderStep(p) => session' = session /\ metadata' = metadata]_vars

\* a verification and a read of the identity have both found the session
\* record, at a later instant than its write, and it is still there
C31_Witness ==
  \E p, q \in Procs :
    /\ VerifyDone(p) /\ proc[p].sawSession
    /\ GetUserDone(q) /\ proc[q].sawSession /\ proc[q].tok = proc[p].tok
    /\ session[proc[p].tok].set /\ now > issuedAt[proc[p].tok]

\* the key the gate has to go by: the header's when the header carries a
\* value, the parameter's when it carries none
KeyOfRequest == IF req.hdr \in Keys THEN req.hdr ELSE req.qry

\* C32: the key handed to validateApiKey, and attached to an admitted request,
\* is the X-API-Key header's whenever that header carries a value, and the
\* api_key parameter's only when it carries none; a request whose header key
\* is not an active key ends with the 401 of the key gate whatever its api_key
\* parameter holds.
C32_HeaderBeforeQuery ==
  /\ req.pc = "validating" => kproc[GateSlot].key = KeyOfRequest
  /\ req.validated = "true" => req.apiKey = KeyOfRequest
  /\ (req.pc \notin {"idle", "guard", "validating"} /\ req.hdr \in Keys
        /\ ~(GetApiKey(req.hdr).found /\ GetApiKey(req.hdr).isActive))
       => KeyGateRejection

\* a request with a deactivated key in its header and an active key in its
\* api_key parameter has been refused
C32_Witness ==
  /\ KeyGateRejection /\ req.validated = "false"
  /\ req.hdr \in Keys /\ GetApiKey(req.hdr).found /\ ~GetApiKey(req.hdr).isActive
  /\ req.qry \in Keys /\ GetApiKey(req.qry).found /\ GetApiKey(req.qry).isActive

\* C33: a getConfig(k) answered from the defaults (before initialisation has
\* finished, or after the load from Cassandra failed) returns
\* DEFAULT_CONFIGS[environment][k], the 'local' defaults for an unknown
\* environment, for every key k of the defaults.
C33_DefaultsServed ==
  (dynConfig.asked # NotAsked /\ dynConfig.defaulted) =>
    dynConfig.got = DefaultConfig(dynConfig.environment)[dynConfig.asked]

\* C34: for the key string of the service, when it has at least 32
\* characters, ApiEncryptionHelper holds the key the EncryptionService holds,
\* and a request whose body is the envelope the helper made of a payload
\* leaves the decrypt gate with that payload as its body and is not refused.
C34_ClientKeyMatchesServer ==
  LET K == ServerKeyString(codec.cfg, codec.env)
  IN K.len >= MinKeyChars =>
       /\ HelperKey(K) = codec.key
       /\ \A payload \in Payloads, iv \in Ivs :
            LET e == Encrypt(HelperKey(K), iv, JsonStringify(payload))
            IN (e.ok /\ Intercepted /\ req.received = EnvelopeBody(e))
                 => req.body = Parsed(payload) /\ req.status # 400

\* C35: whatever the interleaving of signup requests, the identity store
\* holds at most one record per email, and two signup requests for one email
\* never both answer success: a signup that did not create the record of its
\* email and met no store error answers EMAIL_ALREADY_EXISTS (requests that
\* carry an email and a password).
SignupDone(p) ==
  /\ proc[p].pc = "done" /\ proc[p].op = "signup"
  /\ proc[p].email # Empty /\ proc[p].password # Empty
C35_OneSignupPerEmail ==
  /\ \A e \in Emails : Len(users[e]) <= 1
  /\ \A p, q \in Procs :
       (p # q /\ SignupDone(p) /\ SignupDone(q) /\ proc[p].email = proc[q].email
          /\ proc[p].res.success)
         => /\ ~proc[q].res.success
            /\ ~proc[q].failed =>
                 proc[q].res = CreateErrorResponse("EMAIL_ALREADY_EXISTS")

\* C36: a login or signup that answers success=false has left nothing behind:
\* it has created no identity record, and neither the session record nor the
\* metadata record of a token it generated is in the store.
AuthRefused(p) ==
  /\ proc[p].pc = "done" /\ proc[p].op \in {"login", "signup"}
  /\ ~proc[p].res.success
C36_FailureLeavesNothing ==
  \A p \in Procs :
    AuthRefused(p) =>
      /\ ~proc[p].created
      /\ proc[p].tok # NoToken =>
           ~session[proc[p].tok].set /\ ~metadata[proc[p].tok].set

\* C37: in every response of the verify endpoint the fields agree: valid is
\* true exactly when the code is null and no reason is given; the reason is
\* EXPIRED exactly when the code is SESSION_EXPIRED; the reason is INVALID, with
\* the message 'Session token is invalid or does not exist', exactly when the
\* code is SESSION_INVALID, and then both session records were found absent.
C37_VerifyFieldsAgree ==
  \A p \in Procs :
    VerifyDone(p) =>
      LET r == proc[p].response
      IN /\ r.valid <=> (r.code = "null" /\ r.reason = NoReason)
         /\ r.reason = "EXPIRED" <=> r.code = "SESSION_EXPIRED"
         /\ (r.reason = "INVALID"
               /\ r.message = "Session token is invalid or does not exist")
              <=> r.code = "SESSION_INVALID"
         /\ r.code = "SESSION_INVALID" =>
              ~proc[p].failed /\ ~proc[p].sawSession /\ ~proc[p].sawMeta

\* C38: for a token issued with a lifetime above zero, a checkSessionStatus
\* call invoked after earlier calls have returned never returns a status
\* that comes before one of theirs in the order VALID, EXPIRED, INVALID,
\* whether or not logout is called in between.
StatusReturned(p) == VerifyDone(p) /\ ~proc[p].failed /\ proc[p].floor >= 0
C38_StatusesAreMonotone ==
  \A p \in Procs :
    (StatusReturned(p) /\ sessionTtl > 0) => StatusRank(proc[p].status) >= proc[p].floor
\* an INVALID returned after an EXPIRED, with the logout of the token begun
C38_Witness ==
  \E p \in Procs :
    /\ StatusReturned(p) /\ sessionTtl > 0
    /\ proc[p].floor = 2 /\ StatusRank(proc[p].status) = 3
    /\ logoutBegun[proc[p].tok]
=============================================================================
